---- MODULE Spec2Model ----
(***************************************************************************)
(* Model of the view-result Lambda (src/test.py): normalisation of the     *)
(* view answers, the RelatedContactId chain walk of _get_contact_details,  *)
(* the ViewQuestions side lookup and the DynamoDB put_item.                *)
(* With it, the contact-flow Lambda (src/process_contact_flow_event.py),    *)
(* the view-question extractor (src/extract_view_questions.py) and the     *)
(* provisioning script (src/enable_case_event_streams.py).                 *)
(*                                                                         *)
(* One invocation of lambda_handler is a sequence of steps; every call to  *)
(* an upstream service (describe_contact, describe_user,                   *)
(* describe_campaign, query, put_item) ends one step, and its outcome (a   *)
(* response or an exception) is chosen by the environment at that step.    *)
(*                                                                         *)
(* Specifications:                                                         *)
(*   Spec           one invocation of lambda_handler                       *)
(*   SpecPair       two invocations for the same InitialContactId, their   *)
(*                  steps interleaved, on one table                        *)
(*   SpecNormalize  normalize_view_value (src/test.py) called alone        *)
(*   SpecDecode     the field loop of process_task_event                   *)
(*                  (src/process_contact_flow_event.py)                    *)
(*   SpecExtract    extract_name_label_pairs                               *)
(*                  (src/extract_view_questions.py)                        *)
(*   SpecTaskRef    _extract_case_id_from_task_ref                         *)
(*                  (src/process_contact_flow_event.py) called alone       *)
(*   SpecFlow       one invocation of lambda_handler of                    *)
(*                  src/process_contact_flow_event.py                      *)
(*   SpecViews      one invocation of lambda_handler of                    *)
(*                  src/extract_view_questions.py                          *)
(*   SpecSetup      main of src/enable_case_event_streams.py, run twice    *)
(*                  in a row                                               *)
(***************************************************************************)
EXTENDS Integers, Sequences, FiniteSets, TLC

\* ------------------------------------------------------------------------
\* Python values
\* ------------------------------------------------------------------------

\* Python None, also what dict.get returns for an absent key.
NoneV == "None"

\* A Python str / int / list / dict with str keys; the elements of a list
\* and the values of a dict are such values themselves.
PyStr(s) == [kind |-> "str", v |-> s]
PyInt(n) == [kind |-> "int", v |-> n]
PyList(xs) == [kind |-> "list", v |-> xs]
PyDict(f) == [kind |-> "dict", v |-> f]
PyFloat(x) == [kind |-> "float", v |-> x]
PyBool(b) == [kind |-> "bool", v |-> b]
PyNone == [kind |-> "none", v |-> "None"]

\* What a call gives when it raises ValueError instead of returning.
ValueError == [kind |-> "raise", v |-> "ValueError"]

\* {} : the empty dict.
EmptyDict == [k \in {} |-> NoneV]

\* d[k] = v
Put(d, k, v) == [x \in DOMAIN d \cup {k} |-> IF x = k THEN v ELSE d[x]]

\* d.update(e): the keys of e are written last, so e wins on a common key.
Update(d, e) == [x \in DOMAIN d \cup DOMAIN e |-> IF x \in DOMAIN e THEN e[x] ELSE d[x]]

\* ------------------------------------------------------------------------
\* Bounds of the model
\* ------------------------------------------------------------------------

\* Number of distinct contact ids the contact service knows.
NumIds == 2

IdNames == <<"A", "B", "C", "D", "E", "F">>

ContactIds == {IdNames[i] : i \in 1..NumIds}

\* ------------------------------------------------------------------------
\* normalize_view_value
\* ------------------------------------------------------------------------

\* int(k) for the decimal strings of the model; int raises ValueError for a
\* string outside the table.
IntOf == [k \in {"0", "1", "2", "10"} |->
            CASE k = "0" -> 0 [] k = "1" -> 1 [] k = "2" -> 2 [] k = "10" -> 10]

\* The one-character string U+00B2 (superscript two): str.isdigit is True for
\* it, and int raises ValueError on it.
SuperscriptTwo == "^2"

\* str(k).isdigit(): True for the decimal strings and for digit characters
\* that are no decimal digits.
IsDigit(k) == k \in DOMAIN IntOf \cup {SuperscriptTwo}

DecimalDigits == <<"0", "1", "2", "3", "4", "5", "6", "7", "8", "9">>

\* str(n) for an int 0 <= n < 100.
IntText(n) ==
    IF n < 10 THEN DecimalDigits[n + 1]
    ELSE DecimalDigits[(n \div 10) + 1] \o DecimalDigits[(n % 10) + 1]

\* str(x) for a str or an int.
Str(x) == IF x.kind = "int" THEN IntText(x.v) ELSE x.v

\* ", ".join(xs) for a sequence of strings.
RECURSIVE Join(_)
Join(xs) ==
    IF Len(xs) = 0 THEN ""
    ELSE IF Len(xs) = 1 THEN xs[1]
    ELSE xs[1] \o ", " \o Join(Tail(xs))

\* The place of a decimal string of the model in the order of str.
TextRank(k) == CASE k = "0" -> 1 [] k = "1" -> 2 [] k = "10" -> 3 [] k = "2" -> 4

\* sorted(keys): the keys in the order of str, "10" before "2".
RECURSIVE SortedAsText(_)
SortedAsText(keys) ==
    IF keys = {} THEN <<>>
    ELSE LET least == CHOOSE k \in keys : \A j \in keys : TextRank(k) <= TextRank(j)
         IN  <<least>> \o SortedAsText(keys \ {least})

\* sorted(keys, key=int): the keys in ascending order of their integer value.
RECURSIVE SortedByInt(_)
SortedByInt(keys) ==
    IF keys = {} THEN <<>>
    ELSE LET least == CHOOSE k \in keys : \A j \in keys : IntOf[k] <= IntOf[j]
         IN  <<least>> \o SortedByInt(keys \ {least})

\* The value normalize_view_value returns, or ValueError when the int(x) of
\* its sort key raises.
normalize_view_value(raw) ==
    IF raw.kind = "dict" /\ \A k \in DOMAIN raw.v : IsDigit(k)
    THEN IF \E k \in DOMAIN raw.v : k \notin DOMAIN IntOf
         THEN ValueError
         ELSE LET order == SortedByInt(DOMAIN raw.v)
              IN  PyStr(Join([i \in 1..Len(order) |-> Str(raw.v[order[i]])]))
    ELSE IF raw.kind = "list"
    THEN PyStr(Join([i \in 1..Len(raw.v) |-> Str(raw.v[i])]))
    ELSE raw

\* ------------------------------------------------------------------------
\* Configuration and upstream services
\* ------------------------------------------------------------------------

\* DDB_PK_NAME: the name of the table's partition key attribute.
DDB_PK == "InitialContactId"

\* _DDB_TTL_ATTR
DDB_TTL_ATTR == "ttl"

\* for hop in range(5)
MaxHops == 5

\* 365 * 24 * 3600: the retention window added to the clock.
TtlSeconds == 365 * 24 * 3600

\* Values of int(time.time()).
ClockValues == {1700000000}

\* datetime.now(tz).strftime("%B %d, %Y %I:%M:%S %p EST") at offset -5.
CreatedAtText(now) ==
    IF now = 1700000000 THEN "November 14, 2023 05:13:20 PM EST" ELSE "unknown"

timestamp_fields ==
    <<"InitiationTimestamp", "DisconnectTimestamp", "ConnectedToSystemTimestamp",
      "LastUpdateTimestamp", "LastPausedTimestamp", "LastResumedTimestamp",
      "ScheduledTimestamp">>

agent_ts_fields ==
    <<"ConnectedToAgentTimestamp", "AcceptedByAgentTimestamp",
      "AfterContactWorkStartTimestamp", "AfterContactWorkEndTimestamp">>

Range(seq) == {seq[i] : i \in 1..Len(seq)}

\* The datetime object the contact service returns for a timestamp field.
DateTimeValue == "datetime(2024, 5, 1, 10, 0, tzinfo=UTC)"

\* ts_val.isoformat() if hasattr(ts_val, "isoformat") else str(ts_val)
IsoFormat(ts_val) ==
    IF ts_val = DateTimeValue THEN "2024-05-01T10:00:00+00:00" ELSE ts_val

\* Which timestamp fields a contact carries: none, or some fields of each of
\* the three places (contact, AgentInfo, QueueInfo) with the others absent.
StampProfiles ==
    { [top |-> {}, agent |-> {}, enqueue |-> FALSE],
      [top |-> {"InitiationTimestamp", "DisconnectTimestamp"},
       agent |-> {"ConnectedToAgentTimestamp"}, enqueue |-> TRUE] }

Channels == {"VOICE", "TASK"}

AgentIds == {NoneV, "agent-1"}

CampaignIds == {NoneV, "camp-1"}

\* contact = {}
EmptyContact ==
    [Channel |-> NoneV, RelatedContactId |-> NoneV, Stamps |-> {},
     AgentInfo |-> [Id |-> NoneV, Stamps |-> {}],
     QueueInfo |-> [EnqueueTimestamp |-> FALSE],
     Campaign |-> [CampaignId |-> NoneV]]

\* contact_resp.get("Contact", {}) of a describe_contact response: the
\* default {} of a response without a Contact, or a contact with a channel.
\* A field that is None stands for an absent key; AgentInfo without an Id
\* stands for an absent (or null) AgentInfo.
ContactRecords ==
    { [Channel |-> ch,
       RelatedContactId |-> rel,
       Stamps |-> p.top,
       AgentInfo |-> [Id |-> a, Stamps |-> IF a = NoneV THEN {} ELSE p.agent],
       QueueInfo |-> [EnqueueTimestamp |-> p.enqueue],
       Campaign |-> [CampaignId |-> c]] :
      ch \in Channels, rel \in ContactIds \cup {NoneV}, p \in StampProfiles,
      a \in AgentIds, c \in CampaignIds }
    \cup {EmptyContact}

\* describe_user responses: the User's IdentityInfo names and Username.
UserRecords ==
    { [FirstName |-> "Ann", LastName |-> "Lee", Username |-> "alee"],
      [FirstName |-> "Ann", LastName |-> "", Username |-> NoneV],
      [FirstName |-> "", LastName |-> "", Username |-> NoneV] }

\* describe_campaign responses: the campaign's name.
CampaignRecords == { [name |-> "Spring"], [name |-> NoneV] }

\* What an upstream call can raise: botocore's ClientError, or any other
\* Exception (a timeout, a connection error).
ErrorKinds == {"ClientError", "Exception"}

\* The outcome of a call: it raised an error, or it returned a response.
Raised(kind) == [raised |-> TRUE, kind |-> kind]

Ok(resp) == [raised |-> FALSE, resp |-> resp]

Outcomes(responses) == {Raised(k) : k \in ErrorKinds} \cup {Ok(r) : r \in responses}

\* ViewQuestions query responses: no item, an item with an empty Label, an
\* item with a Label.
LabelResponses == {NoneV, "", "How was the call?"}

\* ------------------------------------------------------------------------
\* The Lambda event
\* ------------------------------------------------------------------------

\* How an optional map of ContactData appears in the event: the key is
\* absent, its value is null, or its value is a map.
Shapes == {"absent", "null", "map"}

\* Details.Parameters of the event: viewResultData, as the ordered (key,
\* value) pairs of the dict, and viewAction ("" when absent).
Answers ==
    { [viewResultData |-> <<>>, viewAction |-> ""],
      [viewResultData |->
          << [key |-> "q1", value |-> PyDict([k \in {"0", "1"} |-> IF k = "0" THEN PyStr("A") ELSE PyStr("B")])] >>,
       viewAction |-> "submit"],
      [viewResultData |->
          << [key |-> "q1", value |-> PyStr("yes")],
             [key |-> "AgentId", value |-> PyStr("typed-by-customer")] >>,
       viewAction |-> ""],
      [viewResultData |->
          << [key |-> "q2", value |-> PyList(<<PyStr("x"), PyStr("y")>>)],
             [key |-> "DescribedContactId", value |-> PyStr("form-value")] >>,
       viewAction |-> "submit"] }

BaseEvent ==
    [ InitialContactId |-> "c1",
      ContactId |-> "c2",
      PreviousContactId |-> NoneV,
      RelatedContactId |-> NoneV,
      InstanceARN |-> "arn:aws:connect:us-east-1:111122223333:instance/inst-1",
      InitiationMethod |-> "API",
      Channel |-> "TASK",
      CustomerEndpoint |-> "absent",
      Queue |-> "absent",
      SystemEndpoint |-> "absent",
      viewResultData |-> <<>>,
      viewAction |-> "" ]

\* Events that vary the shapes of the optional ContactData maps.
ShapeEvents ==
    { [BaseEvent EXCEPT !.InitialContactId = pk, !.CustomerEndpoint = ce,
                        !.Queue = q, !.SystemEndpoint = se,
                        !.viewResultData = << [key |-> "q1", value |-> PyStr("yes")] >>] :
      pk \in {NoneV, "", "c1"}, ce \in Shapes, q \in Shapes, se \in Shapes }

\* An event with all three optional maps and a related contact.
FullEvent ==
    [BaseEvent EXCEPT !.CustomerEndpoint = "map", !.Queue = "map",
                      !.SystemEndpoint = "map", !.RelatedContactId = "A",
                      !.viewResultData = << [key |-> "q1", value |-> PyStr("yes")] >>]

\* Events that vary the answers, the action and the lineage inputs.
FieldEvents ==
    { [BaseEvent EXCEPT !.InitialContactId = pk,
                        !.viewResultData = a.viewResultData,
                        !.viewAction = a.viewAction, !.RelatedContactId = rel,
                        !.InstanceARN = arn] :
      pk \in {NoneV, "c1"}, a \in Answers, rel \in {NoneV, "A"},
      arn \in {NoneV, BaseEvent.InstanceARN} }

\* An event whose answers have a map with the key U+00B2, a list with a
\* number in it, and a field named like a companion attribute.
EdgeEvent ==
    [BaseEvent EXCEPT
        !.viewAction = "submit",
        !.viewResultData =
            << [key |-> "q1",
                value |-> PyDict([k \in {"1", SuperscriptTwo} |->
                                     IF k = "1" THEN PyStr("A") ELSE PyStr("B")])],
               [key |-> "q2", value |-> PyList(<<PyStr("x"), PyInt(7)>>)],
               [key |-> "q2_Question", value |-> PyStr("typed-by-customer")] >>]

\* An event whose form has a field named like the key attribute of the table.
KeyFieldEvent ==
    [BaseEvent EXCEPT
        !.viewResultData =
            << [key |-> DDB_PK, value |-> PyStr("typed-by-customer")] >>]

Events == ShapeEvents \cup FieldEvents \cup {FullEvent, EdgeEvent, KeyFieldEvent}

\* contact_data.get(name, {}).get(field): raises AttributeError when the
\* value under name is null, which "AttributeError" stands for.
GetOfDefault(shape, value) ==
    CASE shape = "absent" -> NoneV
      [] shape = "null" -> "AttributeError"
      [] shape = "map" -> value

\* contact_data.get(name, {}).get(field) if contact_data.get(name) else None
GetIfPresent(shape, value) == IF shape = "map" THEN value ELSE NoneV

\* The optional_fields dict of lambda_handler, in the order it is built.
optional_fields(contact_data) ==
    << [name |-> "ContactId", value |-> contact_data.ContactId],
       [name |-> "PreviousContactId", value |-> contact_data.PreviousContactId],
       [name |-> "RelatedContactId", value |-> contact_data.RelatedContactId],
       [name |-> "CustomerEndpointAddress",
        value |-> GetOfDefault(contact_data.CustomerEndpoint, "+15550100")],
       [name |-> "InitiationMethod", value |-> contact_data.InitiationMethod],
       [name |-> "Channel", value |-> contact_data.Channel],
       [name |-> "QueueName", value |-> GetIfPresent(contact_data.Queue, "Support")],
       [name |-> "SystemEndpointAddress",
        value |-> GetIfPresent(contact_data.SystemEndpoint, "+15550199")],
       [name |-> "OutboundCallerId",
        value |-> GetIfPresent(contact_data.Queue, "+15550111")] >>

\* Building optional_fields raises when one of its .get chains raises.
OptionalFieldsRaise(contact_data) ==
    \E i \in 1..Len(optional_fields(contact_data)) :
        optional_fields(contact_data)[i].value = "AttributeError"

\* for attr_name, attr_value in optional_fields.items():
\*     if attr_value: item[attr_name] = attr_value
RECURSIVE WithOptional(_, _)
WithOptional(d, fields) ==
    IF Len(fields) = 0 THEN d
    ELSE LET f == fields[1]
         IN  WithOptional(IF f.value # NoneV /\ f.value # ""
                          THEN Put(d, f.name, PyStr(f.value)) ELSE d,
                          Tail(fields))

\* An except clause that stores nothing: the key is left out.
OnKeyErrorDropsKey(d, answer_key, raw_answer_value) == d

\* except Exception as key_error: normalized_attributes[answer_key] =
\* raw_answer_value
OnKeyError(d, answer_key, raw_answer_value) == Put(d, answer_key, raw_answer_value)

\* The loop over view_result_data.items() of lambda_handler: each key gets
\* its normalized value, or its raw value when normalize_view_value raised.
RECURSIVE NormalizeAll(_)
NormalizeAll(pairs) ==
    IF Len(pairs) = 0 THEN EmptyDict
    ELSE LET n == Len(pairs)
             d == NormalizeAll(SubSeq(pairs, 1, n - 1))
             r == normalize_view_value(pairs[n].value)
         IN  IF r.kind = "raise" THEN OnKeyError(d, pairs[n].key, pairs[n].value)
             ELSE Put(d, pairs[n].key, r)

\* normalized_attributes after the loop and the viewAction assignment.
NormalizedAttributes(pairs, view_action) ==
    IF view_action # ""
    THEN Put(NormalizeAll(pairs), "viewAction", PyStr(view_action))
    ELSE NormalizeAll(pairs)

\* list(normalized_attributes.keys()): the keys in insertion order.
KeyOrder(pairs, view_action) ==
    LET keys == [i \in 1..Len(pairs) |-> pairs[i].key]
    IN  IF view_action # "" /\ "viewAction" \notin Range(keys)
        THEN Append(keys, "viewAction") ELSE keys

\* ------------------------------------------------------------------------
\* _get_contact_details: the pure parts
\* ------------------------------------------------------------------------

\* LoopBreaks without the channel test: a VOICE contact is walked past.
LoopBreaksIgnoresVoice(c, cur) ==
    \/ c.RelatedContactId = NoneV
    \/ c.RelatedContactId = cur

\* LoopBreaks without the self-reference test.
LoopBreaksIgnoresSelf(c, cur) ==
    \/ c.Channel = "VOICE"
    \/ c.RelatedContactId = NoneV

\* The two break conditions of one loop iteration: the contact is the VOICE
\* contact, or it has no RelatedContactId, or that id is its own.
LoopBreaks(c, cur) ==
    \/ c.Channel = "VOICE"
    \/ c.RelatedContactId = NoneV
    \/ c.RelatedContactId = cur

\* The timestamp entries copied into result: every listed field the contact
\* carries, as an ISO string.
StampEntries(c) ==
    LET present == (c.Stamps \cap Range(timestamp_fields))
                   \cup (c.AgentInfo.Stamps \cap Range(agent_ts_fields))
                   \cup (IF c.QueueInfo.EnqueueTimestamp THEN {"EnqueueTimestamp"} ELSE {})
    IN  [f \in present |-> PyStr(IsoFormat(DateTimeValue))]

\* result after the loop: the described contact, its channel and its
\* timestamps.
AfterWalk(res, c, cur) ==
    LET r0 == Put(res, "DescribedContactId", PyStr(cur))
        r1 == IF c.Channel # NoneV
              THEN Put(r0, "OriginalContactChannel", PyStr(c.Channel)) ELSE r0
    IN  Update(r1, StampEntries(c))

\* f"{first_name} {last_name}".strip()
AgentName(first_name, last_name) ==
    IF first_name = "" THEN last_name
    ELSE IF last_name = "" THEN first_name
    ELSE first_name \o " " \o last_name

\* result after a describe_user call that returned u.
WithUser(res, u) ==
    LET r1 == IF u.FirstName # "" \/ u.LastName # ""
              THEN Put(res, "AgentName", PyStr(AgentName(u.FirstName, u.LastName)))
              ELSE res
    IN  IF u.Username # NoneV THEN Put(r1, "AgentUsername", PyStr(u.Username)) ELSE r1

\* result after a describe_campaign call that returned camp.
WithCampaign(res, camp) ==
    IF camp.name = NoneV THEN res ELSE Put(res, "CampaignName", PyStr(camp.name))

\* LoopEnds off by one: range(MaxHops + 1).
LoopEndsLate(h) == h = MaxHops

\* for hop in range(5): iteration h is the last one the loop can run.
LoopEnds(h) == h = MaxHops - 1

\* The outer try with its except Exception clause left out.
ResolverCatchesClientErrorOnly(kind) == kind = "ClientError"

\* The except clauses of _get_contact_details' outer try: ClientError, then
\* Exception.
ResolverCatches(kind) == kind = "ClientError" \/ kind \in ErrorKinds

\* describe_user without a try of its own.
UserCatchesNothing(kind) == FALSE

\* except Exception around describe_user.
UserCatches(kind) == kind \in ErrorKinds

\* except Exception around describe_campaign.
CampaignCatches(kind) == kind \in ErrorKinds

\* except Exception around the ViewQuestions query.
QueryCatches(kind) == kind \in ErrorKinds

\* _write_to_dynamodb with its except Exception clause left out.
WriteCatchesClientErrorOnly(kind) == kind = "ClientError"

\* The except clauses of _write_to_dynamodb: ClientError, then Exception.
WriteCatches(kind) == kind = "ClientError" \/ kind \in ErrorKinds

\* The test "initial_contact_id is not None": an empty id counts as a key.
HasPrimaryKeyNotNone(contact_data) == contact_data.InitialContactId # NoneV

\* if initial_contact_id: the event carries a partition key value.
HasPrimaryKey(contact_data) ==
    contact_data.InitialContactId # NoneV /\ contact_data.InitialContactId # ""

\* The merge the other way round: the keys item already holds are kept.
MergeDetailsKeepsItem(it, details) == Update(details, it)

\* item.update(contact_details)
MergeDetails(it, details) == Update(it, details)

\* ------------------------------------------------------------------------
\* State
\* ------------------------------------------------------------------------

VARIABLES
    dynamodb,               \* _dynamodb is set (DDB_TABLE_NAME and DDB_PK_NAME given)
    vq_table,               \* _VQ_TABLE is set
    table,                  \* the DynamoDB table: partition key value -> item
    event,                  \* the event of this invocation
    pc,                     \* where the invocation stands
    normalized_attributes,  \* lambda_handler's normalized_attributes
    key_order,              \* the insertion order of normalized_attributes' keys
    item,                   \* lambda_handler's item
    current_id,             \* _get_contact_details: current_id
    hop,                    \* _get_contact_details: hop
    contact,                \* _get_contact_details: contact
    result,                 \* _get_contact_details: result
    label_pos,              \* position of the side-lookup loop in its keys
    calls,                  \* the upstream calls made so far, in order
    suspended,              \* the locals of a second invocation that is not running
    raw_value,              \* normalize_view_value called alone: its argument
    returned,               \* normalize_view_value called alone: what the call gave
    raw_fields,             \* process_task_event: raw_fields
    fields,                 \* process_task_event: fields
    field_pos,              \* process_task_event: position of the loop in raw_fields
    warnings,               \* process_task_event: the field ids logger.warning named
    data,                   \* extract_name_label_pairs: its argument
    pairs,                  \* extract_name_label_pairs: what the call gave
    task_event,             \* _extract_case_id_from_task_ref called alone: its argument
    case_id,                \* _extract_case_id_from_task_ref called alone: what the call gave
    cases_domain_id,        \* process_contact_flow_event: _CASES_DOMAIN_ID
    sns_topic_arn,          \* process_contact_flow_event: _SNS_TOPIC_ARN
    flow_event,             \* process_contact_flow_event: the event of the invocation
    flow_pc,                \* process_contact_flow_event: where the invocation stands
    flow_data,              \* process_contact_flow_event: lambda_handler data
    message_id,             \* process_contact_flow_event: lambda_handler message_id
    flow_result,            \* process_contact_flow_event: what lambda_handler returned or raised
    flow_calls,             \* process_contact_flow_event: the get_case and publish calls made
    views_ddb,              \* extract_view_questions: _dynamodb is set
    views_event,            \* extract_view_questions: the event of the invocation
    view_arns,              \* extract_view_questions: lambda_handler view_arns
    views_pc,               \* extract_view_questions: where the invocation stands
    arn_pos,                \* extract_view_questions: position of the loop in view_arns
    processed,              \* extract_view_questions: lambda_handler processed
    errors,                 \* extract_view_questions: lambda_handler errors
    views_calls,            \* extract_view_questions: the upstream calls made so far
    integration_exists,     \* AppIntegrations: an event integration of the name exists
    associations,           \* Connect: the EVENT integration associations of the instance
    setup_pc,               \* enable_case_event_streams: where main stands
    setup_run,              \* enable_case_event_streams: which run of the script this is
    event_integration_arn,  \* enable_case_event_streams: main event_integration_arn
    assoc_id,               \* enable_case_event_streams: what associate_integration_with_instance gave
    setup_calls             \* enable_case_event_streams: the upstream calls made so far

normalize_vars == <<raw_value, returned>>

decode_vars == <<raw_fields, fields, field_pos, warnings>>

extract_vars == <<data, pairs>>

taskref_vars == <<task_event, case_id>>

flow_vars == <<cases_domain_id, sns_topic_arn, flow_event, flow_pc, flow_data, message_id,
               flow_result, flow_calls>>

views_vars == <<views_ddb, views_event, view_arns, views_pc, arn_pos, processed, errors,
                views_calls>>

setup_vars == <<integration_exists, associations, setup_pc, setup_run, event_integration_arn,
                assoc_id, setup_calls>>

\* The state of the functions called alone, outside lambda_handler.
fn_vars == <<normalize_vars, decode_vars, extract_vars, taskref_vars, flow_vars, views_vars,
            setup_vars>>

\* What no step of a single invocation touches.
rest == <<suspended, fn_vars>>

\* The state of lambda_handler and its table.
handler_vars == <<dynamodb, vq_table, table, event, pc, normalized_attributes,
                  key_order, item, current_id, hop, contact, result, label_pos, calls,
                  suspended>>

vars == <<dynamodb, vq_table, table, event, pc, normalized_attributes, key_order,
          item, current_id, hop, contact, result, label_pos, calls, rest>>

Call(op, arg, ok) == [op |-> op, arg |-> arg, ok |-> ok]

\* A ViewQuestions query for attr_key and the Label it gave (None when it
\* raised or found no item).
QueryCall(attr_key, out) ==
    [op |-> "query", arg |-> attr_key, ok |-> ~out.raised,
     label |-> IF out.raised THEN NoneV ELSE out.resp]

\* There is no second invocation.
NoInvocation == [pc |-> "none"]

\* The function has not been called.
NotCalled == [kind |-> "pending", v |-> ""]

\* normalize_view_value is not called alone.
NormalizeIdle == raw_value = PyStr("") /\ returned = NotCalled

\* The field loop of process_task_event is not run.
DecodeIdle == raw_fields = <<>> /\ fields = EmptyDict /\ field_pos = 1 /\ warnings = <<>>

\* extract_name_label_pairs is not called.
ExtractIdle == data = PyStr("") /\ pairs = NotCalled

\* _extract_case_id_from_task_ref is not called alone.
TaskRefIdle == task_event = PyNone /\ case_id = NotCalled

\* lambda_handler of process_contact_flow_event.py is not invoked.
FlowIdle ==
    /\ cases_domain_id = PyNone /\ sns_topic_arn = PyNone /\ flow_event = PyNone
    /\ flow_pc = "none" /\ flow_data = EmptyDict /\ message_id = PyNone
    /\ flow_result = NotCalled /\ flow_calls = <<>>

\* lambda_handler of extract_view_questions.py is not invoked.
ViewsIdle ==
    /\ views_ddb = FALSE /\ views_event = EmptyDict /\ view_arns = <<>> /\ views_pc = "none"
    /\ arn_pos = 1 /\ processed = 0 /\ errors = 0 /\ views_calls = <<>>

\* main of enable_case_event_streams.py is not run.
SetupIdle ==
    /\ integration_exists = FALSE /\ associations = <<>> /\ setup_pc = "none" /\ setup_run = 1
    /\ event_integration_arn = NoneV /\ assoc_id = NoneV /\ setup_calls = <<>>

\* The keys the side-lookup loop queries: all but "viewAction".
LabelKeys == SelectSeq(key_order, LAMBDA k : k # "viewAction")

Init ==
    /\ dynamodb \in BOOLEAN
    /\ vq_table \in BOOLEAN
    /\ table = EmptyDict
    /\ event \in Events
    /\ pc = "start"
    /\ normalized_attributes = EmptyDict
    /\ key_order = <<>>
    /\ item = EmptyDict
    /\ current_id = NoneV
    /\ hop = 0
    /\ contact = EmptyContact
    /\ result = EmptyDict
    /\ label_pos = 1
    /\ calls = <<>>
    /\ suspended = NoInvocation
    /\ NormalizeIdle /\ DecodeIdle /\ ExtractIdle /\ TaskRefIdle /\ FlowIdle /\ ViewsIdle
    /\ SetupIdle

\* ------------------------------------------------------------------------
\* lambda_handler, first part: normalisation and the item up to CreatedAt
\* ------------------------------------------------------------------------

\* Where lambda_handler goes after the lineage lookup: into the side-lookup
\* loop when it has a key to query, else to _write_to_dynamodb.
AfterLineage(keys) ==
    IF vq_table /\ dynamodb /\ SelectSeq(keys, LAMBDA k : k # "viewAction") # <<>>
    THEN "labels" ELSE "write"

\* item before the optional fields: the key, the ttl, the normalized fields.
BaseItem(pk, now, normalized) ==
    Update(Put(Put(EmptyDict, DDB_PK, PyStr(pk)), DDB_TTL_ATTR, PyInt(now + TtlSeconds)),
           normalized)

HandlerStart ==
    /\ pc = "start"
    /\ \E now \in ClockValues :
        LET contact_data == event
            normalized == NormalizedAttributes(event.viewResultData, event.viewAction)
            keys == KeyOrder(event.viewResultData, event.viewAction)
            item0 == BaseItem(contact_data.InitialContactId, now, normalized)
            item1 == Put(WithOptional(item0, optional_fields(contact_data)),
                         "CreatedAt", PyStr(CreatedAtText(now)))
        IN  /\ normalized_attributes' = normalized
            /\ key_order' = keys
            /\ IF ~HasPrimaryKey(contact_data)
               THEN /\ pc' = "returned"
                    /\ UNCHANGED <<item, current_id>>
               ELSE IF OptionalFieldsRaise(contact_data)
               THEN /\ pc' = "raised"
                    /\ item' = item0
                    /\ UNCHANGED current_id
               ELSE /\ item' = item1
                    /\ IF contact_data.InstanceARN # NoneV /\ contact_data.RelatedContactId # NoneV
                       THEN /\ pc' = "walk"
                            /\ current_id' = contact_data.RelatedContactId
                       ELSE /\ pc' = AfterLineage(keys)
                            /\ UNCHANGED current_id
    /\ UNCHANGED <<dynamodb, vq_table, table, event, hop, contact, result, label_pos, calls>>
    /\ UNCHANGED rest

\* ------------------------------------------------------------------------
\* _get_contact_details, called from lambda_handler
\* ------------------------------------------------------------------------

\* An exception no except clause caught reaches lambda_handler's own except
\* clause, which logs it and raises it again.
Propagate ==
    /\ pc' = "raised"
    /\ UNCHANGED <<result, item>>

\* return result, then item.update(contact_details) in lambda_handler.
ReturnDetails(res) ==
    /\ result' = res
    /\ item' = MergeDetails(item, res)
    /\ pc' = AfterLineage(key_order)

\* An exception leaves the body of _get_contact_details' outer try: a caught
\* one is logged and result is returned as it stands.
Escape(kind) ==
    IF ResolverCatches(kind) THEN ReturnDetails(result) ELSE Propagate

\* The campaign block without its "if campaign_id" test.
CampaignBlockUnconditional(res) ==
    /\ result' = Put(res, "CampaignId", PyStr(contact'.Campaign.CampaignId))
    /\ pc' = "campaign"
    /\ UNCHANGED item

\* The campaign block: with a CampaignId the id is stored and
\* describe_campaign is called next; without one the function returns.
CampaignBlock(res) ==
    IF contact'.Campaign.CampaignId # NoneV
    THEN /\ result' = Put(res, "CampaignId", PyStr(contact'.Campaign.CampaignId))
         /\ pc' = "campaign"
         /\ UNCHANGED item
    ELSE ReturnDetails(res)

\* The agent block: with an agent Id the id is stored and describe_user is
\* called next; without one the campaign block follows.
AgentBlock(res) ==
    IF contact'.AgentInfo.Id # NoneV
    THEN /\ result' = Put(res, "AgentId", PyStr(contact'.AgentInfo.Id))
         /\ pc' = "user"
         /\ UNCHANGED item
    ELSE CampaignBlock(res)

\* describe_contact caught inside the loop, the loop left with a break: the
\* code after the loop runs on the last contact fetched.
FetchRaisedBreaks(kind) ==
    /\ UNCHANGED <<contact, current_id, hop>>
    /\ AgentBlock(AfterWalk(result, contact, current_id))

\* describe_contact raised inside the loop: nothing in the loop catches it.
FetchRaised(kind) ==
    /\ UNCHANGED <<contact, current_id, hop>>
    /\ Escape(kind)

\* One iteration of the hop loop: describe_contact on current_id.  The
\* iteration that ends the loop runs on to the first call after the loop.
DescribeContact ==
    /\ pc = "walk"
    /\ \E out \in Outcomes(ContactRecords) :
        /\ calls' = Append(calls, Call("describe_contact", current_id, ~out.raised))
        /\ IF out.raised
           THEN FetchRaised(out.kind)
           ELSE LET c == out.resp
                    stop == LoopBreaks(c, current_id)
                IN  /\ contact' = c
                    /\ current_id' = IF stop THEN current_id ELSE c.RelatedContactId
                    /\ hop' = IF stop \/ LoopEnds(hop) THEN hop ELSE hop + 1
                    /\ IF stop \/ LoopEnds(hop)
                       THEN AgentBlock(AfterWalk(result, c, current_id'))
                       ELSE /\ pc' = "walk"
                            /\ UNCHANGED <<result, item>>
    /\ UNCHANGED <<dynamodb, vq_table, table, event, normalized_attributes, key_order,
                   label_pos>>
    /\ UNCHANGED rest

\* describe_user for the agent of the described contact.
DescribeUser ==
    /\ pc = "user"
    /\ \E out \in Outcomes(UserRecords) :
        /\ calls' = Append(calls, Call("describe_user", contact.AgentInfo.Id, ~out.raised))
        /\ UNCHANGED contact
        /\ IF ~out.raised THEN CampaignBlock(WithUser(result, out.resp))
           ELSE IF UserCatches(out.kind) THEN CampaignBlock(result)
           ELSE Escape(out.kind)
    /\ UNCHANGED <<dynamodb, vq_table, table, event, normalized_attributes, key_order,
                   current_id, hop, label_pos>>
    /\ UNCHANGED rest

\* describe_campaign for the campaign of the described contact.
DescribeCampaign ==
    /\ pc = "campaign"
    /\ \E out \in Outcomes(CampaignRecords) :
        /\ calls' = Append(calls, Call("describe_campaign", contact.Campaign.CampaignId,
                                       ~out.raised))
        /\ IF ~out.raised THEN ReturnDetails(WithCampaign(result, out.resp))
           ELSE IF CampaignCatches(out.kind) THEN ReturnDetails(result)
           ELSE Escape(out.kind)
    /\ UNCHANGED <<dynamodb, vq_table, table, event, normalized_attributes, key_order,
                   current_id, hop, contact, label_pos>>
    /\ UNCHANGED rest

\* ------------------------------------------------------------------------
\* lambda_handler, second part: side lookup and write
\* ------------------------------------------------------------------------

\* WithLabel without the "if question_label" test: an empty Label is stored.
WithLabelEvenIfEmpty(it, attr_key, label) ==
    IF label = NoneV THEN it ELSE Put(it, attr_key \o "_Question", PyStr(label))

\* item after the ViewQuestions query for attr_key returned label (None
\* when the query found no item).
WithLabel(it, attr_key, label) ==
    IF label = NoneV \/ label = "" THEN it
    ELSE Put(it, attr_key \o "_Question", PyStr(label))

\* One iteration of the side-lookup loop that makes a query.
QueryLabel ==
    /\ pc = "labels"
    /\ \E out \in Outcomes(LabelResponses) :
        /\ calls' = Append(calls, QueryCall(LabelKeys[label_pos], out))
        /\ IF out.raised /\ ~QueryCatches(out.kind)
           THEN /\ pc' = "raised"
                /\ UNCHANGED <<item, label_pos>>
           ELSE /\ item' = IF out.raised THEN item
                           ELSE WithLabel(item, LabelKeys[label_pos], out.resp)
                /\ label_pos' = label_pos + 1
                /\ pc' = IF label_pos = Len(LabelKeys) THEN "write" ELSE "labels"
    /\ UNCHANGED <<dynamodb, vq_table, table, event, normalized_attributes, key_order,
                   current_id, hop, contact, result>>
    /\ UNCHANGED rest

\* put_item as an insert: an item whose key is taken is stored as a row of
\* its own next to the one already there.
PutItemInserts(t, it) ==
    IF it[DDB_PK] \in DOMAIN t THEN Put(t, PyInt(Cardinality(DOMAIN t)), it)
    ELSE Put(t, it[DDB_PK], it)

\* put_item as a merge into the stored item (what update_item does): the
\* attributes the new item lacks stay.
PutItemMerges(t, it) ==
    Put(t, it[DDB_PK], IF it[DDB_PK] \in DOMAIN t THEN Update(t[it[DDB_PK]], it) ELSE it)

\* The table after put_item(Item=it): the item replaces the one stored
\* under its partition key value.
PutItem(t, it) == Put(t, it[DDB_PK], it)

\* _write_to_dynamodb(item), then return normalized_attributes.
WriteToDynamodb ==
    /\ pc = "write"
    /\ IF ~dynamodb
       THEN /\ pc' = "returned"
            /\ UNCHANGED <<table, calls>>
       ELSE \E out \in Outcomes({"written"}) :
                /\ calls' = Append(calls, Call("put_item", item, ~out.raised))
                /\ table' = IF out.raised THEN table ELSE PutItem(table, item)
                /\ pc' = IF out.raised /\ ~WriteCatches(out.kind)
                         THEN "raised" ELSE "returned"
    /\ UNCHANGED <<dynamodb, vq_table, event, normalized_attributes, key_order, item,
                   current_id, hop, contact, result, label_pos>>
    /\ UNCHANGED rest

Next ==
    \/ HandlerStart
    \/ DescribeContact
    \/ DescribeUser
    \/ DescribeCampaign
    \/ QueryLabel
    \/ WriteToDynamodb

Spec == Init /\ [][Next]_vars

\* ------------------------------------------------------------------------
\* Two invocations of lambda_handler on one table
\* ------------------------------------------------------------------------

\* Two events of the same contact (the same InitialContactId) that differ in
\* their answers and in their optional fields; neither has a related
\* contact, so neither invocation walks a chain.
PairEvents ==
    { [BaseEvent EXCEPT !.CustomerEndpoint = "map",
                        !.viewResultData = << [key |-> "q1", value |-> PyStr("yes")] >>],
      [BaseEvent EXCEPT !.viewAction = "submit",
                        !.viewResultData =
                            << [key |-> "q2", value |-> PyList(<<PyStr("x"), PyStr("y")>>)] >>] }

\* The locals of an invocation of lambda_handler that has not taken a step.
Fresh(ev) ==
    [event |-> ev, pc |-> "start", normalized_attributes |-> EmptyDict,
     key_order |-> <<>>, item |-> EmptyDict, current_id |-> NoneV, hop |-> 0,
     contact |-> EmptyContact, result |-> EmptyDict, label_pos |-> 1]

\* The locals of the running invocation.
Running ==
    [event |-> event, pc |-> pc, normalized_attributes |-> normalized_attributes,
     key_order |-> key_order, item |-> item, current_id |-> current_id, hop |-> hop,
     contact |-> contact, result |-> result, label_pos |-> label_pos]

Finished(p) == p \in {"returned", "raised"}

InitPair ==
    /\ dynamodb = TRUE
    /\ vq_table \in BOOLEAN
    /\ table = EmptyDict
    /\ calls = <<>>
    /\ event \in PairEvents
    /\ pc = "start"
    /\ normalized_attributes = EmptyDict
    /\ key_order = <<>>
    /\ item = EmptyDict
    /\ current_id = NoneV
    /\ hop = 0
    /\ contact = EmptyContact
    /\ result = EmptyDict
    /\ label_pos = 1
    /\ suspended \in {Fresh(ev) : ev \in PairEvents}
    /\ NormalizeIdle /\ DecodeIdle /\ ExtractIdle /\ TaskRefIdle /\ FlowIdle /\ ViewsIdle
    /\ SetupIdle

\* The two invocations run in execution environments of their own and share
\* the table only: between two upstream calls of one, the other may take its
\* steps.
Switch ==
    /\ ~Finished(suspended.pc)
    /\ suspended' = Running
    /\ event' = suspended.event
    /\ pc' = suspended.pc
    /\ normalized_attributes' = suspended.normalized_attributes
    /\ key_order' = suspended.key_order
    /\ item' = suspended.item
    /\ current_id' = suspended.current_id
    /\ hop' = suspended.hop
    /\ contact' = suspended.contact
    /\ result' = suspended.result
    /\ label_pos' = suspended.label_pos
    /\ UNCHANGED <<dynamodb, vq_table, table, calls, fn_vars>>

NextPair ==
    \/ HandlerStart
    \/ QueryLabel
    \/ WriteToDynamodb
    \/ Switch

SpecPair == InitPair /\ [][NextPair]_vars

\* ------------------------------------------------------------------------
\* normalize_view_value called alone
\* ------------------------------------------------------------------------

\* Longest list given to normalize_view_value.
MaxLen == 2

\* The elements of the lists: strings and a number.
Elements == {PyStr("x"), PyStr("y"), PyInt(7)}

RECURSIVE ListsUpTo(_)
ListsUpTo(n) ==
    IF n = 0 THEN {<<>>}
    ELSE LET shorter == ListsUpTo(n - 1)
         IN  shorter \cup {Append(xs, e) : xs \in {l \in shorter : Len(l) = n - 1},
                                            e \in Elements}

\* The keys of the maps: decimal strings, U+00B2, and a key that is no
\* number; and the value each key has in a map.
KeyPool == {"0", "1", "2", "10", SuperscriptTwo, "other"}

ValueOf(k) ==
    CASE k = "0" -> PyInt(7)
      [] k = "1" -> PyStr("A")
      [] k = "2" -> PyStr("B")
      [] k = "10" -> PyStr("C")
      [] OTHER -> PyStr("D")

\* The values normalize_view_value is called with: scalars, lists, maps.
RawValues ==
    {PyStr("scalar"), PyStr(""), PyInt(3)}
    \cup {PyList(xs) : xs \in ListsUpTo(MaxLen)}
    \cup {PyDict([k \in ks |-> ValueOf(k)]) : ks \in SUBSET KeyPool}

\* lambda_handler and its table take no part.
HandlerIdle ==
    /\ dynamodb = FALSE
    /\ vq_table = FALSE
    /\ table = EmptyDict
    /\ event = BaseEvent
    /\ pc = "none"
    /\ normalized_attributes = EmptyDict
    /\ key_order = <<>>
    /\ item = EmptyDict
    /\ current_id = NoneV
    /\ hop = 0
    /\ contact = EmptyContact
    /\ result = EmptyDict
    /\ label_pos = 1
    /\ calls = <<>>
    /\ suspended = NoInvocation

InitNormalize ==
    /\ HandlerIdle /\ DecodeIdle /\ ExtractIdle /\ TaskRefIdle /\ FlowIdle /\ ViewsIdle /\ SetupIdle
    /\ raw_value \in RawValues
    /\ returned = NotCalled

\* returned = normalize_view_value(raw_value); the function assigns nothing
\* to its argument nor into it.
NormalizeCall ==
    /\ returned = NotCalled
    /\ returned' = normalize_view_value(raw_value)
    /\ UNCHANGED raw_value
    /\ UNCHANGED <<handler_vars, decode_vars, extract_vars, taskref_vars, flow_vars, views_vars,
                   setup_vars>>

NextNormalize == NormalizeCall

SpecNormalize == InitNormalize /\ [][NextNormalize]_vars

\* ------------------------------------------------------------------------
\* process_task_event: the loop that decodes the fields of a GetCase response
\* ------------------------------------------------------------------------

\* Most fields of a response, and most keys of a value besides the case of
\* a value with every key.
MaxFields == 2

MaxVariants == 2

\* The order of the comment above the loop: emptyValue before userArnValue.
VariantOrderOfComment ==
    <<"stringValue", "doubleValue", "booleanValue", "emptyValue", "userArnValue">>

\* The keys value_obj is tested for, in the order of the if/elif chain.
VariantOrder ==
    <<"stringValue", "doubleValue", "booleanValue", "userArnValue", "emptyValue">>

\* A key of a variant the chain does not know.
FutureKey == "futureValue"

VariantKeys == Range(VariantOrder) \cup {FutureKey}

\* What the Cases API gives under each key.
VariantValue(k) ==
    CASE k = "stringValue" -> PyStr("Open")
      [] k = "doubleValue" -> PyFloat(100123)
      [] k = "booleanValue" -> PyBool(TRUE)
      [] k = "userArnValue" -> PyStr("arn:aws:connect:us-east-1:111122223333:instance/inst-1/agent/u1")
      [] k = "emptyValue" -> PyDict(EmptyDict)
      [] OTHER -> PyStr("z")

\* field.get("value", {}): the maps a field can have as its value; the empty
\* one is also the default of a field without a value.
ValueObjs ==
    { [k \in ks |-> VariantValue(k)] :
        ks \in {S \in SUBSET VariantKeys : Cardinality(S) <= MaxVariants \/ S = VariantKeys} }

FieldIds == <<"status", "title", "summary", "assigned_user">>

RECURSIVE FieldListsUpTo(_)
FieldListsUpTo(n) ==
    IF n = 0 THEN {<<>>}
    ELSE LET shorter == FieldListsUpTo(n - 1)
         IN  shorter \cup
             {Append(fs, [id |-> FieldIds[n], value |-> v]) :
                 fs \in {l \in shorter : Len(l) = n - 1}, v \in ValueObjs}

\* response.get("fields", [])
RawFieldLists == FieldListsUpTo(MaxFields)

\* The text of one entry of str(value_obj).
ReprEntry(k) ==
    CASE k = "stringValue" -> "'stringValue': 'Open'"
      [] k = "doubleValue" -> "'doubleValue': 100123.0"
      [] k = "booleanValue" -> "'booleanValue': True"
      [] k = "userArnValue" ->
            "'userArnValue': 'arn:aws:connect:us-east-1:111122223333:instance/inst-1/agent/u1'"
      [] k = "emptyValue" -> "'emptyValue': {}"
      [] OTHER -> "'futureValue': 'z'"

\* str(value_obj): the text of the dict, its entries in the order of
\* VariantOrder with the unknown key last.
Repr(value_obj) ==
    LET order == SelectSeq(Append(VariantOrder, FutureKey),
                           LAMBDA k : k \in DOMAIN value_obj)
    IN  "{" \o Join([i \in 1..Len(order) |-> ReprEntry(order[i])]) \o "}"

\* The first key of order that value_obj has, None when it has none.
RECURSIVE FirstPresent(_, _)
FirstPresent(order, value_obj) ==
    IF order = <<>> THEN NoneV
    ELSE IF Head(order) \in DOMAIN value_obj THEN Head(order)
    ELSE FirstPresent(Tail(order), value_obj)

\* An else branch that stores None and logs nothing.
UnknownAsNone(value_obj) == [value |-> PyNone, warned |-> FALSE]

\* The else branch: fields[field_id] = str(value_obj), and a warning.
Unknown(value_obj) == [value |-> PyStr(Repr(value_obj)), warned |-> TRUE]

\* The if/elif chain: what is stored for value_obj and whether a warning is
\* logged.
Decode(value_obj) ==
    LET k == FirstPresent(VariantOrder, value_obj)
    IN  IF k = NoneV THEN Unknown(value_obj)
        ELSE IF k = "emptyValue" THEN [value |-> PyNone, warned |-> FALSE]
        ELSE [value |-> value_obj[k], warned |-> FALSE]

InitDecode ==
    /\ HandlerIdle /\ NormalizeIdle /\ ExtractIdle /\ TaskRefIdle /\ FlowIdle /\ ViewsIdle
    /\ SetupIdle
    /\ raw_fields \in RawFieldLists
    /\ fields = EmptyDict
    /\ field_pos = 1
    /\ warnings = <<>>

\* One iteration of "for field in raw_fields".
DecodeField ==
    /\ field_pos <= Len(raw_fields)
    /\ LET field == raw_fields[field_pos]
           decoded == Decode(field.value)
       IN  /\ fields' = Put(fields, field.id, decoded.value)
           /\ warnings' = IF decoded.warned THEN Append(warnings, field.id)
                          ELSE warnings
    /\ field_pos' = field_pos + 1
    /\ UNCHANGED raw_fields
    /\ UNCHANGED <<handler_vars, normalize_vars, extract_vars, taskref_vars, flow_vars,
                   views_vars, setup_vars>>

NextDecode == DecodeField

SpecDecode == InitDecode /\ [][NextDecode]_vars

\* ------------------------------------------------------------------------
\* extract_name_label_pairs
\* ------------------------------------------------------------------------

\* A dict of the View template: its items in insertion order.
DocMap(entries) == [kind |-> "dict", v |-> entries]

Entry(key, value) == [key |-> key, value |-> value]

\* key in data
HasKey(d, key) == \E i \in 1..Len(d.v) : d.v[i].key = key

\* data.get(key)
GetKey(d, key) ==
    IF HasKey(d, key) THEN d.v[CHOOSE i \in 1..Len(d.v) : d.v[i].key = key].value
    ELSE PyNone

\* bool(x)
Truthy(x) ==
    CASE x.kind = "str" -> x.v # ""
      [] x.kind = "int" -> x.v # 0
      [] x.kind \in {"dict", "list"} -> Len(x.v) > 0
      [] OTHER -> FALSE

\* a or b
Or(a, b) == IF Truthy(a) THEN a ELSE b

\* isinstance(x, str)
IsStr(x) == x.kind = "str"

\* name = data.get("Name") or data.get("name")
NameOf(d) == Or(GetKey(d, "Name"), GetKey(d, "name"))

\* The for loop over ("Label", "label"): the first of the two that is a
\* key of data with a str value, else None.
LabelOf(d) ==
    IF HasKey(d, "Label") /\ IsStr(GetKey(d, "Label")) THEN GetKey(d, "Label")
    ELSE IF HasKey(d, "label") /\ IsStr(GetKey(d, "label")) THEN GetKey(d, "label")
    ELSE PyNone

RECURSIVE extract_name_label_pairs(_)
RECURSIVE ExtractEach(_)

\* pairs.extend(extract_name_label_pairs(x)) for each x of xs, in order.
ExtractEach(xs) ==
    IF xs = <<>> THEN <<>>
    ELSE extract_name_label_pairs(Head(xs)) \o ExtractEach(Tail(xs))

extract_name_label_pairs(d) ==
    IF d.kind = "dict"
    THEN (IF Truthy(NameOf(d)) /\ Truthy(LabelOf(d))
          THEN << [Name |-> NameOf(d), Label |-> LabelOf(d)] >> ELSE <<>>)
         \o ExtractEach([i \in 1..Len(d.v) |-> d.v[i].value])
    ELSE IF d.kind = "list" THEN ExtractEach(d.v)
    ELSE <<>>

\* The name and label items a dict of a template can have.
Heads ==
    { <<>>,
      << Entry("Name", PyStr("REDE_Q1")), Entry("Label", PyStr("Yes")) >>,
      << Entry("name", PyStr("REDE_Q1")), Entry("label", PyStr("Yes")) >>,
      << Entry("NAME", PyStr("REDE_Q1")), Entry("LABEL", PyStr("Yes")) >>,
      << Entry("Name", PyStr("REDE_Q1")) >>,
      << Entry("Label", PyStr("Yes")) >>,
      << Entry("Name", PyStr("")), Entry("Label", PyStr("Yes")) >>,
      << Entry("Name", PyStr("REDE_Q1")), Entry("Label", PyStr("")) >>,
      << Entry("Name", PyInt(5)), Entry("Label", PyStr("Yes")) >>,
      << Entry("Name", PyStr("REDE_Q1")), Entry("Label", PyInt(7)) >>,
      << Entry("Name", PyStr("")), Entry("name", PyStr("REDE_Q2")),
         Entry("Label", PyStr("Yes")) >>,
      << Entry("Name", PyStr("REDE_Q1")), Entry("Label", PyStr("")),
         Entry("label", PyStr("Yes")) >>,
      << Entry("Name", PyStr("REDE_Q1")), Entry("Label", PyInt(7)),
         Entry("label", PyStr("Yes")) >> }

\* The heads of the dicts nested in another.
InnerHeads ==
    { <<>>,
      << Entry("Name", PyStr("REDE_Q3")), Entry("Label", PyStr("No")) >>,
      << Entry("Name", PyInt(5)), Entry("Label", PyStr("Yes")) >> }

\* Documents without a dict or list in them.
Leaves == {PyStr("text"), PyInt(1)} \cup {DocMap(h) : h \in InnerHeads}

\* Lists of leaves.
LeafLists ==
    {PyList(<<>>)} \cup {PyList(<<a>>) : a \in Leaves}
    \cup {PyList(<<a, b>>) : a \in Leaves, b \in Leaves}

\* Dicts with a head and, under Content, a leaf or a list of leaves.
Components ==
    {DocMap(h) : h \in Heads}
    \cup {DocMap(Append(h, Entry("Content", c))) : h \in Heads, c \in Leaves \cup LeafLists}

\* The templates the function is called with.
Documents ==
    Leaves \cup LeafLists \cup Components
    \cup {PyList(<<m>>) : m \in Components}
    \cup {DocMap(Append(h, Entry("Content", m))) : h \in InnerHeads, m \in Components}

InitExtract ==
    /\ HandlerIdle /\ NormalizeIdle /\ DecodeIdle /\ TaskRefIdle /\ FlowIdle /\ ViewsIdle
    /\ SetupIdle
    /\ data \in Documents
    /\ pairs = NotCalled

\* pairs = extract_name_label_pairs(data)
ExtractCall ==
    /\ pairs = NotCalled
    /\ pairs' = PyList(extract_name_label_pairs(data))
    /\ UNCHANGED data
    /\ UNCHANGED <<handler_vars, normalize_vars, decode_vars, taskref_vars, flow_vars,
                   views_vars, setup_vars>>

NextExtract == ExtractCall

SpecExtract == InitExtract /\ [][NextExtract]_vars

\* ------------------------------------------------------------------------
\* _extract_case_id_from_task_ref (process_contact_flow_event.py), called
\* alone
\* ------------------------------------------------------------------------

EmptyDoc == DocMap(<<>>)

AttributeError == [kind |-> "raise", v |-> "AttributeError"]

\* A non-empty str given by its pieces: every "/", "?", "#" and "//" of the
\* text is a piece of its own, and so is the text between two of them.
Text(pieces) == [kind |-> "text", v |-> pieces]

\* d.get(key, default): an AttributeError when d has no get, and an
\* exception raised before the call goes on through it.
Get(d, key, default) ==
    IF d.kind = "raise" THEN d
    ELSE IF d.kind # "dict" THEN AttributeError
    ELSE IF HasKey(d, key) THEN GetKey(d, key)
    ELSE default

\* not x
Not(x) == IF x.kind = "text" THEN x.v = <<>> ELSE ~Truthy(x)

Schemes == {"https:", "http:"}

\* The first position of seq that holds one of stops, Len(seq) + 1 if none.
RECURSIVE Find(_, _, _)
Find(seq, stops, i) ==
    IF i > Len(seq) \/ seq[i] \in stops THEN i ELSE Find(seq, stops, i + 1)

\* urlparse(url): the scheme is taken off, then the netloc after "//" up to
\* the next "/", "?" or "#", then the fragment after the first "#", then the
\* query after the first "?"; what is left is the path.
urlparse(url) ==
    LET s1 == IF url # <<>> /\ Head(url) \in Schemes THEN Tail(url) ELSE url
        has_netloc == s1 # <<>> /\ Head(s1) = "//"
        end == Find(Tail(s1), {"/", "?", "#"}, 1)
        s2 == IF has_netloc THEN SubSeq(Tail(s1), end, Len(Tail(s1))) ELSE s1
        s3 == SubSeq(s2, 1, Find(s2, {"#"}, 1) - 1)
        s4 == SubSeq(s3, 1, Find(s3, {"?"}, 1) - 1)
    IN  [scheme |-> IF s1 = url THEN <<>> ELSE <<Head(url)>>,
         netloc |-> IF has_netloc THEN SubSeq(Tail(s1), 1, end - 1) ELSE <<>>,
         path |-> s4]

\* path.split("/"): the texts between the separators, "" where two
\* separators meet and at an end of the path that is a separator.
RECURSIVE Split(_)
Split(path) ==
    IF path = <<>> THEN <<"">>
    ELSE IF Head(path) = "/" THEN <<"">> \o Split(Tail(path))
    ELSE LET r == Split(Tail(path))
         IN  <<Head(path) \o Head(r)>> \o Tail(r)

\* [s for s in parsed.path.split("/")], the "if s" left out.
AllSegments(path) == Split(path)

\* [s for s in parsed.path.split("/") if s]
path_segments(path) == SelectSeq(Split(path), LAMBDA s : s # "")

\* The body of the try block: None, the last segment, or the exception.
TaskRefBody(ev) ==
    LET references == Get(Get(Get(ev, "Details", EmptyDoc), "ContactData", EmptyDoc),
                          "References", EmptyDoc)
        task_ref == Get(references, "taskRef", EmptyDoc)
        task_ref_url == Get(task_ref, "Value", PyStr(""))
    IN  IF task_ref_url.kind = "raise" THEN task_ref_url
        ELSE IF Not(task_ref_url) THEN PyNone
        ELSE IF task_ref_url.kind # "text" THEN AttributeError
        ELSE LET segments == path_segments(urlparse(task_ref_url.v).path)
             IN  IF segments = <<>> THEN PyNone
                 ELSE PyStr(segments[Len(segments)])

\* except Exception: return None
extract_case_id_from_task_ref(ev) ==
    LET r == TaskRefBody(ev) IN IF r.kind = "raise" THEN PyNone ELSE r

MaxSegments == 2

MaxSlashes == 2

SegmentTexts == {"case-detail", "de4d7f2d"}

\* <<"/", s1, "/", s2, ...>>
RECURSIVE Slashed(_)
Slashed(segs) ==
    IF segs = <<>> THEN <<>> ELSE <<"/", Head(segs)>> \o Slashed(Tail(segs))

Slashes(n) == [i \in 1..n |-> "/"]

\* The texts of taskRef.Value: with and without scheme and host, up to
\* MaxSegments segments, up to MaxSlashes slashes at the end, with and
\* without a query or a fragment.
UrlTexts ==
    { Text(front \o Slashed(segs) \o Slashes(n) \o back) :
        front \in {<<>>, <<"https:", "//", "dev.my.connect.aws">>},
        segs \in UNION {[1..k -> SegmentTexts] : k \in 0..MaxSegments},
        n \in 0..MaxSlashes,
        back \in {<<>>, <<"?", "tab=1">>, <<"#", "/", "case">>} }
    \cup {Text(<<"de4d7f2d">>), Text(<<"cases", "/", "de4d7f2d">>)}

TaskRefValues == (UrlTexts \ {Text(<<>>)}) \cup {PyStr(""), PyNone, PyInt(5)}

\* An event with the given References.
WithReferences(references) ==
    DocMap(<<Entry("Details",
                   DocMap(<<Entry("ContactData",
                                  DocMap(<<Entry("Channel", PyStr("TASK")),
                                           Entry("References", references)>>))>>))>>)

\* The events: every place of the path to Value missing, null or of another
\* type, and every value of Value.
TaskEvents ==
    {PyNone, EmptyDoc, PyStr("event"),
     DocMap(<<Entry("Details", PyNone)>>),
     DocMap(<<Entry("Details", EmptyDoc)>>),
     DocMap(<<Entry("Details", DocMap(<<Entry("ContactData", PyNone)>>))>>),
     DocMap(<<Entry("Details", DocMap(<<Entry("ContactData", EmptyDoc)>>))>>),
     WithReferences(PyNone), WithReferences(EmptyDoc),
     WithReferences(PyList(<<>>)),
     WithReferences(DocMap(<<Entry("taskRef", PyNone)>>)),
     WithReferences(DocMap(<<Entry("taskRef", PyStr("url"))>>)),
     WithReferences(DocMap(<<Entry("taskRef", EmptyDoc)>>)),
     WithReferences(DocMap(<<Entry("taskRef", DocMap(<<Entry("Type", PyStr("URL"))>>))>>))}
    \cup {WithReferences(DocMap(<<Entry("taskRef",
                                        DocMap(<<Entry("Type", PyStr("URL")),
                                                 Entry("Value", value)>>))>>)) :
          value \in TaskRefValues}

InitTaskRef ==
    /\ HandlerIdle /\ NormalizeIdle /\ DecodeIdle /\ ExtractIdle /\ FlowIdle /\ ViewsIdle
    /\ SetupIdle
    /\ task_event \in TaskEvents
    /\ case_id = NotCalled

\* case_id = _extract_case_id_from_task_ref(event)
TaskRefCall ==
    /\ case_id = NotCalled
    /\ case_id' = extract_case_id_from_task_ref(task_event)
    /\ UNCHANGED task_event
    /\ UNCHANGED <<handler_vars, normalize_vars, decode_vars, extract_vars, flow_vars,
                   views_vars, setup_vars>>

NextTaskRef == TaskRefCall

SpecTaskRef == InitTaskRef /\ [][NextTaskRef]_vars

\* ------------------------------------------------------------------------
\* lambda_handler of process_contact_flow_event.py
\* ------------------------------------------------------------------------

\* d[key] = value on a dict kept as its entries in insertion order.
SetKey(d, key, value) ==
    IF HasKey(d, key)
    THEN DocMap([i \in 1..Len(d.v) |->
                    IF d.v[i].key = key THEN Entry(key, value) ELSE d.v[i]])
    ELSE DocMap(Append(d.v, Entry(key, value)))

\* The loop over raw_fields of process_task_event, run to its end.
RECURSIVE DecodeFields(_, _)
DecodeFields(fs, raw) ==
    IF raw = <<>> THEN fs
    ELSE DecodeFields(SetKey(fs, Head(raw).id, Decode(Head(raw).value).value), Tail(raw))

\* str(value) for the values a field or an attribute has.
StrOf(value) ==
    CASE value.kind = "float" -> IF value.v = 100123 THEN "100123.0" ELSE "0.0"
      [] value.kind = "bool" -> IF value.v THEN "True" ELSE "False"
      [] OTHER -> value.v

\* A field of a get_case response whose value has the given variant keys.
CaseField(id, keys) == [id |-> id, value |-> [k \in keys |-> VariantValue(k)]]

\* get_case responses: no field, fields of the default ids, a field that
\* has the id "id", and a field of an unknown variant.
CaseResponses ==
    { <<>>,
      <<CaseField("title", {"stringValue"}), CaseField("reference_number", {"doubleValue"}),
        CaseField("summary", {"emptyValue"})>>,
      <<CaseField("status", {"stringValue"}), CaseField("id", {"userArnValue"})>>,
      <<CaseField("task_name", {"booleanValue"}), CaseField("channel", {FutureKey})>> }

\* response.get("MessageId", "") of a publish that did not raise.
MessageIds == {"", "msg-1"}

\* ContactData.Attributes of the events.
AttributeMaps ==
    { EmptyDoc,
      DocMap(<<Entry("customerName", PyStr("John Doe")), Entry("reason", PyNone)>>),
      DocMap(<<Entry("id", PyStr("ACC-12345")), Entry("status", PyStr("vip"))>>) }

FlowChannels == {PyStr("TASK"), PyStr("CHAT"), PyStr("VOICE"), PyStr(""), PyNone}

\* taskRef.Value of the events: a case URL, the same with a slash at its
\* end, a URL without a path, and the empty text.
FlowTaskRefs ==
    { Text(<<"https:", "//", "dev.my.connect.aws", "/", "case-detail", "/", "de4d7f2d">>),
      Text(<<"https:", "//", "dev.my.connect.aws", "/", "case-detail", "/", "de4d7f2d", "/">>),
      Text(<<"https:", "//", "dev.my.connect.aws">>),
      PyStr("") }

FlowEvent(channel, value, attributes) ==
    DocMap(<<Entry("Details",
        DocMap(<<Entry("ContactData",
            DocMap(<<Entry("Attributes", attributes),
                     Entry("Channel", channel),
                     Entry("ContactId", PyStr("54af2d58")),
                     Entry("Name", PyStr("Action-Required")),
                     Entry("References",
                           DocMap(<<Entry("taskRef",
                                          DocMap(<<Entry("Type", PyStr("URL")),
                                                   Entry("Value", value)>>))>>))>>))>>))>>)

\* The events: every channel, taskRef and attribute map, an event without
\* Details and one whose Details is null.
FlowEvents ==
    {FlowEvent(c, v, a) : c \in FlowChannels, v \in FlowTaskRefs, a \in AttributeMaps}
    \cup {EmptyDoc, DocMap(<<Entry("Details", PyNone)>>)}

\* A result for a ValueError that has the status alone.
ErrorResultWithoutMessage(message) == [status |-> PyStr("error")]

\* The result lambda_handler returns for a ValueError: str(e) as the error.
ErrorResult(message) == [status |-> PyStr("error"), error |-> PyStr(message)]

\* An upstream call of this handler and the exception it raised, if any.
FlowCall(op, arg, out) ==
    [op |-> op, arg |-> arg, ok |-> ~out.raised,
     raised |-> IF out.raised THEN out.kind ELSE NoneV]

\* An exception leaves lambda_handler.
Raise(kind) == [kind |-> "raise", v |-> kind]

\* for key, value in data.get("fields", {}).items():
\*     result[f"{prefix}{key}"] = str(value) if value is not None else ""
RECURSIVE Flatten(_, _, _)
Flatten(res, entries, prefix) ==
    IF entries = <<>> THEN res
    ELSE Flatten(Put(res, prefix \o Head(entries).key,
                     PyStr(IF Head(entries).value = PyNone THEN ""
                           ELSE StrOf(Head(entries).value))),
                 Tail(entries), prefix)

\* prefix = "case_" if channel == "TASK" else "chat_"
Prefix(channel) == IF channel = PyStr("TASK") THEN "case_" ELSE "chat_"

\* The result dict before the fields are flattened into it.
BaseResult(d, mid) ==
    LET r0 == [status |-> PyStr("success"), channel |-> d.channel,
               contact_id |-> d.contact_id,
               sns_message_id |-> Or(mid, PyStr("not_sent"))]
        r1 == IF "case_id" \in DOMAIN d THEN Put(r0, "case_id", d.case_id) ELSE r0
    IN  IF "task_name" \in DOMAIN d THEN Put(r1, "task_name", d.task_name) ELSE r1

\* lambda_handler after send_sns_notification: the flat result is returned.
FlowReturn(channel, d, mid) ==
    /\ flow_data' = d
    /\ message_id' = mid
    /\ flow_result' = Flatten(BaseResult(d, mid), d.fields.v, Prefix(channel))
    /\ flow_pc' = "returned"

\* data is there: send_sns_notification returns None at once without a
\* topic, and calls publish with one.
AfterProcess(channel, d) ==
    IF Not(sns_topic_arn) THEN FlowReturn(channel, d, PyNone)
    ELSE /\ flow_data' = d
         /\ flow_pc' = "publish"
         /\ UNCHANGED <<message_id, flow_result>>

\* lambda_handler leaves with a result or an exception before data is there.
FlowLeave(pc_after, res) ==
    /\ flow_pc' = pc_after
    /\ flow_result' = res
    /\ UNCHANGED <<flow_data, message_id>>

\* A handler whose except clause takes every exception for an input error.
FlowFailedReturnsError(kind) == FlowLeave("returned", ErrorResult(kind))

\* An exception that is no ValueError: logged and raised again.
FlowFailed(kind) == FlowLeave("raised", Raise(kind))

\* lambda_handler up to the first upstream call: the channel is read and
\* process_task_event or process_chat_event is entered.  While get_case is
\* awaited flow_data holds the locals of process_task_event that will make up
\* data.
FlowStart ==
    /\ flow_pc = "start"
    /\ LET contact_data == Get(Get(flow_event, "Details", EmptyDoc), "ContactData", EmptyDoc)
           channel == Get(contact_data, "Channel", PyStr(""))
           contact_id == Get(contact_data, "ContactId", PyStr("unknown"))
           case == extract_case_id_from_task_ref(flow_event)
       IN  IF channel.kind = "raise" THEN FlowFailed(channel.v)
           ELSE IF channel = PyStr("TASK")
           THEN IF Not(cases_domain_id)
                THEN FlowLeave("returned",
                        ErrorResult("CASES_DOMAIN_ID environment variable is not set. "
                                    \o "Cannot process TASK event."))
                ELSE IF Not(case)
                THEN FlowLeave("returned",
                        ErrorResult("Could not extract Case ID from event for contact "
                                    \o StrOf(Get(contact_data, "ContactId", PyStr("")))
                                    \o "."))
                ELSE /\ flow_data' = [channel |-> PyStr("TASK"),
                                      contact_id |-> Get(contact_data, "ContactId", PyStr("")),
                                      case_id |-> case,
                                      task_name |-> Get(contact_data, "Name", PyStr(""))]
                     /\ flow_pc' = "get_case"
                     /\ UNCHANGED <<message_id, flow_result>>
           ELSE IF channel = PyStr("CHAT")
           THEN AfterProcess(channel,
                    [channel |-> PyStr("CHAT"),
                     contact_id |-> Get(contact_data, "ContactId", PyStr("")),
                     fields |-> Get(contact_data, "Attributes", EmptyDoc)])
           ELSE FlowLeave("returned",
                    [status |-> PyStr("error"),
                     error |-> PyStr("Unsupported channel: " \o StrOf(channel)),
                     contact_id |-> contact_id])
    /\ UNCHANGED <<cases_domain_id, sns_topic_arn, flow_event, flow_calls>>
    /\ UNCHANGED <<handler_vars, normalize_vars, decode_vars, extract_vars, taskref_vars,
                   views_vars, setup_vars>>

\* process_task_event from get_case on: a failure is raised again as it is,
\* a response is decoded into data["fields"].
GetCase ==
    /\ flow_pc = "get_case"
    /\ \E out \in Outcomes(CaseResponses) :
        /\ flow_calls' = Append(flow_calls, FlowCall("get_case", flow_data.case_id, out))
        /\ IF out.raised THEN FlowFailed(out.kind)
           ELSE AfterProcess(PyStr("TASK"),
                    [channel |-> flow_data.channel, contact_id |-> flow_data.contact_id,
                     case_id |-> flow_data.case_id, task_name |-> flow_data.task_name,
                     fields |-> DecodeFields(EmptyDoc, out.resp)])
    /\ UNCHANGED <<cases_domain_id, sns_topic_arn, flow_event>>
    /\ UNCHANGED <<handler_vars, normalize_vars, decode_vars, extract_vars, taskref_vars,
                   views_vars, setup_vars>>

\* What send_sns_notification returns after a publish that raised, when its
\* except clauses let the exception through.
PublishRaisedPropagates(kind) == Raise(kind)

\* except ClientError / except Exception in send_sns_notification: None.
PublishRaised(kind) == PyNone

\* send_sns_notification with a topic: one publish; then the rest of
\* lambda_handler.
Publish ==
    /\ flow_pc = "publish"
    /\ \E out \in Outcomes(MessageIds) :
        LET sent == IF out.raised THEN PublishRaised(out.kind) ELSE PyStr(out.resp)
        IN  /\ flow_calls' = Append(flow_calls, FlowCall("publish", flow_data, out))
            /\ IF sent.kind = "raise"
               THEN /\ FlowFailed(sent.v)
               ELSE FlowReturn(Get(Get(Get(flow_event, "Details", EmptyDoc), "ContactData",
                                       EmptyDoc), "Channel", PyStr("")),
                               flow_data, sent)
    /\ UNCHANGED <<cases_domain_id, sns_topic_arn, flow_event>>
    /\ UNCHANGED <<handler_vars, normalize_vars, decode_vars, extract_vars, taskref_vars,
                   views_vars, setup_vars>>

InitFlow ==
    /\ HandlerIdle /\ NormalizeIdle /\ DecodeIdle /\ ExtractIdle /\ TaskRefIdle /\ ViewsIdle
    /\ SetupIdle
    /\ cases_domain_id \in {PyNone, PyStr(""), PyStr("domain-1")}
    /\ sns_topic_arn \in {PyNone, PyStr("arn:aws:sns:us-east-1:111122223333:cases")}
    /\ flow_event \in FlowEvents
    /\ flow_pc = "start"
    /\ flow_data = EmptyDict
    /\ message_id = PyNone
    /\ flow_result = NotCalled
    /\ flow_calls = <<>>

NextFlow == FlowStart \/ GetCase \/ Publish

SpecFlow == InitFlow /\ [][NextFlow]_vars

\* ------------------------------------------------------------------------
\* lambda_handler of extract_view_questions.py
\* ------------------------------------------------------------------------

MaxArns == 3

\* arn:aws:connect:region:account:instance/INSTANCE_ID/view/VIEW_ID
ViewArn(view_id) ==
    Text(<<"arn:aws:connect:us-east-1:111122223333:instance", "/", "inst-1", "/", "view", "/",
           view_id>>)

\* The elements a ViewArns list has: two view ARNs, the ARN of an instance,
\* the empty str and null.
ArnPool ==
    { ViewArn("v1"), ViewArn("v2"),
      Text(<<"arn:aws:connect:us-east-1:111122223333:instance", "/", "inst-1">>),
      PyStr(""), PyNone }

RECURSIVE ArnListsUpTo(_)
ArnListsUpTo(n) ==
    IF n = 0 THEN {<<>>}
    ELSE LET shorter == ArnListsUpTo(n - 1)
         IN  shorter \cup {Append(l, a) : l \in {x \in shorter : Len(x) = n - 1}, a \in ArnPool}

\* The events: ViewArns ([] when absent) and InstanceId ("" when absent).
ViewEvents ==
    [ViewArns : ArnListsUpTo(MaxArns), InstanceId : {PyStr(""), PyStr("inst-9")}]

\* What list_views gives, as the ARNs of one page without a NextToken.
ListedArns == {<<>>, <<ViewArn("v1"), ViewArn("v2")>>}

\* A str that is the JSON text of doc.
JsonText(doc) == [kind |-> "json", v |-> doc]

\* isinstance(x, str)
IsText(x) == x.kind \in {"str", "text", "json"}

\* json.loads(text): the document of a JSON text, a ValueError
\* (JSONDecodeError) for every other str.
json_loads(text) == IF text.kind = "json" THEN text.v ELSE ValueError

\* The template of a view with two questions.
SurveyTemplate ==
    DocMap(<<Entry("Body",
        PyList(<<DocMap(<<Entry("Name", PyStr("q1")), Entry("Label", PyStr("How was it?"))>>),
                 DocMap(<<Entry("Name", PyStr("q2")), Entry("Label", PyStr("Why?"))>>)>>))>>)

\* A template whose second question has a list as its Name.
ListNameTemplate ==
    DocMap(<<Entry("Body",
        PyList(<<DocMap(<<Entry("Name", PyStr("q1")), Entry("Label", PyStr("How was it?"))>>),
                 DocMap(<<Entry("Name", PyList(<<PyStr("q2")>>)),
                          Entry("Label", PyStr("Why?"))>>)>>))>>)

\* response.get("View", {}) of describe_view: a view with a template text, with
\* a text that is no JSON, with a template that is a map already, without
\* Content, and with a null Content.
Views ==
    { DocMap(<<Entry("Name", PyStr("Survey")),
               Entry("Content", DocMap(<<Entry("Template", JsonText(SurveyTemplate))>>))>>),
      DocMap(<<Entry("Content", DocMap(<<Entry("Template", PyStr("{not json"))>>))>>),
      DocMap(<<Entry("Content", DocMap(<<Entry("Template", ListNameTemplate)>>))>>),
      EmptyDoc,
      DocMap(<<Entry("Content", PyNone)>>) }

\* _parse_view_arn: split("/") of the ARN, an AttributeError for a value
\* that has no split.
parse_view_arn(view_arn) ==
    IF ~IsText(view_arn) THEN AttributeError
    ELSE LET parts == IF view_arn.kind = "text" THEN Split(view_arn.v) ELSE <<"">>
         IN  [kind |-> "dict",
              instance_id |-> IF Len(parts) >= 2 THEN parts[2] ELSE "",
              view_id |-> IF Len(parts) >= 4 THEN parts[4] ELSE ""]

\* instance_id = instance_id_override or parsed["instance_id"]
InstanceIdOf(override, parsed) == IF override.v # "" THEN override.v ELSE parsed.instance_id

\* The ARN gets as far as describe_view.
Parsable(override, view_arn) ==
    LET parsed == parse_view_arn(view_arn)
    IN  /\ parsed.kind # "raise"
        /\ InstanceIdOf(override, parsed) # ""
        /\ parsed.view_id # ""

\* view_content: the template of the view, parsed when it is a str; the
\* exception when reading or parsing it raised.
ViewContent(view) ==
    LET template_str == Get(Get(view, "Content", EmptyDoc), "Template", JsonText(EmptyDoc))
    IN  IF template_str.kind = "raise" THEN template_str
        ELSE IF IsText(template_str) THEN json_loads(template_str)
        ELSE template_str

\* LABEL_OVERRIDES.get(pair["Name"], ...) raises TypeError for a Name that
\* cannot be hashed.
Hashable(pair) == pair.Name.kind \notin {"list", "dict"}

\* The pairs the loop over pairs gets through before it raises, if it does.
RECURSIVE WrittenPairs(_)
WrittenPairs(ps) ==
    IF ps = <<>> \/ ~Hashable(Head(ps)) THEN <<>>
    ELSE <<Head(ps)>> \o WrittenPairs(Tail(ps))

\* The put_item calls of one view: one for each pair written, none when
\* _dynamodb is not set.
PutCalls(view_id, ps, ok) ==
    IF ~views_ddb THEN <<>>
    ELSE [i \in 1..Len(ps) |->
            Call("put_item", [Name |-> ps[i].Name, Label |-> ps[i].Label,
                              ViewId |-> view_id], ok)]

\* An iteration that leaves the loop when it fails.
Break(pos) == Len(view_arns) + 1

\* The loop goes on with the next ARN, after continue and after an except
\* clause as after a view that was processed.
Continue(pos) == pos + 1

\* The loop is over once the position has passed the last ARN.
AfterView(pos) == IF pos > Len(view_arns) THEN "returned" ELSE "loop"

\* One iteration counted as an error.
CountError(new_calls) ==
    /\ errors' = errors + 1
    /\ arn_pos' = Continue(arn_pos)
    /\ views_pc' = AfterView(arn_pos')
    /\ views_calls' = views_calls \o new_calls
    /\ UNCHANGED processed

\* One iteration counted as processed.
CountProcessed(new_calls) ==
    /\ processed' = processed + 1
    /\ arn_pos' = arn_pos + 1
    /\ views_pc' = AfterView(arn_pos')
    /\ views_calls' = views_calls \o new_calls
    /\ UNCHANGED errors

\* lambda_handler up to the loop: the ARNs of the event, or those list_views
\* gives when the event has an InstanceId and no ARN; without any ARN the
\* counts are returned at once.  list_views is called outside every try.
ViewsStart ==
    /\ views_pc = "start"
    /\ IF views_event.ViewArns = <<>> /\ views_event.InstanceId.v # ""
       THEN \E out \in Outcomes(ListedArns) :
              /\ views_calls' = Append(views_calls,
                                       Call("list_views", views_event.InstanceId.v, ~out.raised))
              /\ view_arns' = IF out.raised THEN <<>> ELSE out.resp
              /\ views_pc' = IF out.raised THEN "raised"
                             ELSE IF out.resp = <<>> THEN "returned" ELSE "loop"
       ELSE /\ view_arns' = views_event.ViewArns
            /\ views_pc' = IF views_event.ViewArns = <<>> THEN "returned" ELSE "loop"
            /\ UNCHANGED views_calls
    /\ UNCHANGED <<views_ddb, views_event, arn_pos, processed, errors>>
    /\ UNCHANGED <<handler_vars, normalize_vars, decode_vars, extract_vars, taskref_vars,
                   flow_vars, setup_vars>>

\* One iteration of "for view_arn in view_arns".
NextView ==
    /\ views_pc = "loop"
    /\ LET view_arn == view_arns[arn_pos]
           override == views_event.InstanceId
           parsed == parse_view_arn(view_arn)
       IN  IF ~Parsable(override, view_arn) THEN CountError(<<>>)
           ELSE \E out \in Outcomes(Views), put_ok \in BOOLEAN :
                  LET describe == Call("describe_view", parsed.view_id, ~out.raised)
                      content == IF out.raised THEN ValueError ELSE ViewContent(out.resp)
                      ps == IF content.kind = "raise" THEN <<>>
                            ELSE extract_name_label_pairs(content)
                      puts == PutCalls(parsed.view_id, WrittenPairs(ps), put_ok)
                  IN  IF out.raised \/ content.kind = "raise" THEN CountError(<<describe>>)
                      ELSE IF \E i \in 1..Len(ps) : ~Hashable(ps[i])
                      THEN CountError(<<describe>> \o puts)
                      ELSE CountProcessed(<<describe>> \o puts)
    /\ UNCHANGED <<views_ddb, views_event, view_arns>>
    /\ UNCHANGED <<handler_vars, normalize_vars, decode_vars, extract_vars, taskref_vars,
                   flow_vars, setup_vars>>

InitViews ==
    /\ HandlerIdle /\ NormalizeIdle /\ DecodeIdle /\ ExtractIdle /\ TaskRefIdle /\ FlowIdle
    /\ SetupIdle
    /\ views_ddb \in BOOLEAN
    /\ views_event \in ViewEvents
    /\ view_arns = <<>>
    /\ views_pc = "start"
    /\ arn_pos = 1
    /\ processed = 0
    /\ errors = 0
    /\ views_calls = <<>>

NextViews == ViewsStart \/ NextView

SpecViews == InitViews /\ [][NextViews]_vars

\* ------------------------------------------------------------------------
\* main of enable_case_event_streams.py, run MaxRuns times in a row
\* ------------------------------------------------------------------------

MaxRuns == 2

MaxPages == 2

IntegrationName == "amazon-connect-cases"

\* The ARN AppIntegrations gives the event integration of the name.
IntegrationArn ==
    "arn:aws:app-integrations:us-west-2:123456789012:event-integration/" \o IntegrationName

\* An entry of IntegrationAssociationSummaryList.
Summary(arn, id) == [IntegrationArn |-> arn, IntegrationAssociationId |-> id]

\* The association of another integration with the instance.
OtherAssociation == Summary("arn:aws:app-integrations:us-west-2:123456789012:event-integration/other", "assoc-0")

\* The association of the event integration with the instance when it was
\* there before the script ran, and when the script created it.
ExistingAssociation == Summary(IntegrationArn, "existing-assoc-id")

CreatedAssociation == Summary(IntegrationArn, "assoc-12345")

\* The instance has an association with event_integration_arn.
Associated(arn) == \E i \in 1..Len(associations) : associations[i].IntegrationArn = arn

\* An upstream call of the script: whether it raised, in which run it was
\* made, and whether the resource it is about existed when it was made.
SetupCall(op, ok, existed) == [op |-> op, ok |-> ok, run |-> setup_run, existed |-> existed]

\* How main goes on after a step raised: sys.exit(1) for a ClientError, the
\* exception itself for any other.
StepFailed(kind) == IF kind = "ClientError" THEN "exit" ELSE "raised"

\* Step 1, enable_case_event_streams: put_case_event_configuration, then
\* get_case_event_configuration to verify.
EnableStreams ==
    /\ setup_pc = "step1"
    /\ \E put \in Outcomes({"ok"}), get \in Outcomes({"ok"}) :
        /\ setup_calls' =
              IF put.raised
              THEN Append(setup_calls, SetupCall("put_case_event_configuration", FALSE, FALSE))
              ELSE setup_calls \o
                   <<SetupCall("put_case_event_configuration", TRUE, FALSE),
                     SetupCall("get_case_event_configuration", ~get.raised, FALSE)>>
        /\ setup_pc' = IF put.raised THEN StepFailed(put.kind)
                       ELSE IF get.raised THEN StepFailed(get.kind)
                       ELSE "step2"
    /\ UNCHANGED <<integration_exists, associations, setup_run, event_integration_arn, assoc_id>>
    /\ UNCHANGED <<handler_vars, normalize_vars, decode_vars, extract_vars, taskref_vars,
                   flow_vars, views_vars>>

\* What get_event_integration does: the integration when there is one of
\* the name, ResourceNotFoundException when there is none, or a failure.
GetOutcomes ==
    {Raised(k) : k \in ErrorKinds}
    \cup (IF integration_exists THEN {Ok(IntegrationArn)}
          ELSE {Raised("ResourceNotFoundException")})

\* Step 2, create_event_integration, up to its get_event_integration call:
\* the ARN of the integration found is returned, create follows when none
\* was found, and every other failure is raised.
GetEventIntegration ==
    /\ setup_pc = "step2"
    /\ \E out \in GetOutcomes :
        /\ setup_calls' = Append(setup_calls,
                                 SetupCall("get_event_integration", ~out.raised,
                                           integration_exists))
        /\ IF ~out.raised
           THEN /\ event_integration_arn' = out.resp
                /\ setup_pc' = "step3"
           ELSE /\ setup_pc' = IF out.kind = "ResourceNotFoundException"
                               THEN "create_integration" ELSE StepFailed(out.kind)
                /\ UNCHANGED event_integration_arn
    /\ UNCHANGED <<integration_exists, associations, setup_run, assoc_id>>
    /\ UNCHANGED <<handler_vars, normalize_vars, decode_vars, extract_vars, taskref_vars,
                   flow_vars, views_vars>>

\* Step 2, the create_event_integration call.
CreateEventIntegration ==
    /\ setup_pc = "create_integration"
    /\ \E out \in Outcomes({IntegrationArn}) :
        /\ setup_calls' = Append(setup_calls,
                                 SetupCall("create_event_integration", ~out.raised,
                                           integration_exists))
        /\ IF ~out.raised
           THEN /\ integration_exists' = TRUE
                /\ event_integration_arn' = out.resp
                /\ setup_pc' = "step3"
           ELSE /\ setup_pc' = StepFailed(out.kind)
                /\ UNCHANGED <<integration_exists, event_integration_arn>>
    /\ UNCHANGED <<associations, setup_run, assoc_id>>
    /\ UNCHANGED <<handler_vars, normalize_vars, decode_vars, extract_vars, taskref_vars,
                   flow_vars, views_vars>>

\* The summaries of the pages the paginator gave before it raised or ended,
\* when the first page holds cut summaries and read pages were given.
PagesRead(cut, read) ==
    IF read = 0 THEN <<>>
    ELSE IF read = 1 THEN SubSeq(associations, 1, cut)
    ELSE associations

\* The id of the first summary with the ARN, None when there is none.
FirstMatch(summaries, arn) ==
    LET hits == SelectSeq(summaries, LAMBDA a : a.IntegrationArn = arn)
    IN  IF hits = <<>> THEN NoneV ELSE Head(hits).IntegrationAssociationId

\* except ClientError: pass - after a listing that raised a ClientError the
\* function goes on to create the association; any other exception leaves it.
ListRaised(kind) == IF kind = "ClientError" THEN "create_association" ELSE "raised"

\* Step 3, associate_integration_with_instance, up to the end of its loop
\* over the pages of list_integration_associations.
ListAssociations ==
    /\ setup_pc = "step3"
    /\ \E cut \in 0..Len(associations), read \in 0..MaxPages,
          out \in Outcomes({"ok"}) :
        LET seen == PagesRead(cut, IF out.raised THEN read ELSE MaxPages)
            found == FirstMatch(seen, event_integration_arn)
        IN  /\ out.raised => read < MaxPages
            /\ ~out.raised => read = MaxPages
            /\ setup_calls' = Append(setup_calls,
                                     SetupCall("list_integration_associations",
                                               found # NoneV \/ ~out.raised,
                                               Associated(event_integration_arn)))
            /\ IF found # NoneV
               THEN /\ assoc_id' = found
                    /\ setup_pc' = "done"
               ELSE /\ setup_pc' = IF out.raised THEN ListRaised(out.kind)
                                   ELSE "create_association"
                    /\ UNCHANGED assoc_id
    /\ UNCHANGED <<integration_exists, associations, setup_run, event_integration_arn>>
    /\ UNCHANGED <<handler_vars, normalize_vars, decode_vars, extract_vars, taskref_vars,
                   flow_vars, views_vars>>

\* What create_integration_association does: DuplicateResourceException, a
\* ClientError, when the integration is associated already; else the new
\* association, or a failure.
CreateOutcomes ==
    {Raised(k) : k \in ErrorKinds}
    \cup (IF Associated(event_integration_arn) THEN {} ELSE {Ok(CreatedAssociation)})

\* Step 3, the create_integration_association call.
CreateAssociation ==
    /\ setup_pc = "create_association"
    /\ \E out \in CreateOutcomes :
        /\ setup_calls' = Append(setup_calls,
                                 SetupCall("create_integration_association", ~out.raised,
                                           Associated(event_integration_arn)))
        /\ IF ~out.raised
           THEN /\ associations' = Append(associations, out.resp)
                /\ assoc_id' = out.resp.IntegrationAssociationId
                /\ setup_pc' = "done"
           ELSE /\ setup_pc' = StepFailed(out.kind)
                /\ UNCHANGED <<associations, assoc_id>>
    /\ UNCHANGED <<integration_exists, setup_run, event_integration_arn>>
    /\ UNCHANGED <<handler_vars, normalize_vars, decode_vars, extract_vars, taskref_vars,
                   flow_vars, views_vars>>

\* The script is run again after it ended.
RunAgain ==
    /\ setup_pc \in {"done", "exit", "raised"}
    /\ setup_run < MaxRuns
    /\ setup_run' = setup_run + 1
    /\ setup_pc' = "step1"
    /\ event_integration_arn' = NoneV
    /\ assoc_id' = NoneV
    /\ UNCHANGED <<integration_exists, associations, setup_calls>>
    /\ UNCHANGED <<handler_vars, normalize_vars, decode_vars, extract_vars, taskref_vars,
                   flow_vars, views_vars>>

\* Before the first run: nothing set up, an integration without its
\* association, or both, beside the association of another integration or
\* without it.
InitSetup ==
    /\ HandlerIdle /\ NormalizeIdle /\ DecodeIdle /\ ExtractIdle /\ TaskRefIdle /\ FlowIdle
    /\ ViewsIdle
    /\ integration_exists \in BOOLEAN
    /\ associations \in
          {<<>>, <<OtherAssociation>>} \cup
          (IF integration_exists
           THEN {<<ExistingAssociation>>, <<OtherAssociation, ExistingAssociation>>,
                 <<ExistingAssociation, OtherAssociation>>}
           ELSE {})
    /\ setup_pc = "step1"
    /\ setup_run = 1
    /\ event_integration_arn = NoneV
    /\ assoc_id = NoneV
    /\ setup_calls = <<>>

NextSetup ==
    \/ EnableStreams
    \/ GetEventIntegration
    \/ CreateEventIntegration
    \/ ListAssociations
    \/ CreateAssociation
    \/ RunAgain

SpecSetup == InitSetup /\ [][NextSetup]_vars

\* ------------------------------------------------------------------------
\* What the properties speak of
\* ------------------------------------------------------------------------

CallsOf(op) == SelectSeq(calls, LAMBDA c : c.op = op)

\* The describe_contact calls of the walk, in order.
Fetches == CallsOf("describe_contact")

LastFetch == Fetches[Len(Fetches)]

DescribeOps == {"describe_contact", "describe_user", "describe_campaign"}

\* _get_contact_details was called and has returned to lambda_handler.
ResolverReturned == Fetches # <<>> /\ pc \in {"labels", "write", "returned"}

\* Some call of the given operation raised.
SomeFailed(op) == \E i \in 1..Len(calls) : calls[i].op = op /\ ~calls[i].ok

Has(d, k, v) == k \in DOMAIN d /\ d[k] = v

\* The put_item calls that succeeded, in order.
OkPuts == SelectSeq(calls, LAMBDA c : c.op = "put_item" /\ c.ok)

\* The ViewQuestions queries made so far, in order.
Queries == CallsOf("query")

\* The query gave a Label that is not empty.
Labelled(q) == q.ok /\ q.label \notin {NoneV, ""}

\* The side-lookup loop of an event with a key is over.
LookupDone ==
    /\ event.InitialContactId \notin {NoneV, ""}
    /\ vq_table /\ dynamodb
    /\ pc \in {"write", "returned"}

\* The largest integer a key of the model stands for.
LargestInt == CHOOSE n \in {IntOf[k] : k \in DOMAIN IntOf} :
                  \A k \in DOMAIN IntOf : IntOf[k] <= n

\* The values of a map with decimal keys, as text, found by counting n
\* upwards and taking the value of the key that stands for n.
RECURSIVE ValuesCountingFrom(_, _)
ValuesCountingFrom(d, n) ==
    IF n > LargestInt THEN <<>>
    ELSE (IF \E k \in DOMAIN d : IntOf[k] = n
          THEN << Str(d[CHOOSE k \in DOMAIN d : IntOf[k] = n]) >> ELSE <<>>)
         \o ValuesCountingFrom(d, n + 1)

\* All keys of the map are decimal strings.
DecimalKeyed(raw) == raw.kind = "dict" /\ DOMAIN raw.v \subseteq DOMAIN IntOf

\* The fields the loop of process_task_event has been through.
DecodedFields == SubSeq(raw_fields, 1, field_pos - 1)

\* The keys of a value that name a known variant.
KnownKeys(value_obj) ==
    DOMAIN value_obj \cap
        {"stringValue", "doubleValue", "booleanValue", "userArnValue", "emptyValue"}

\* str.lower of the keys of the model.
Lower(key) ==
    CASE key \in {"Name", "name", "NAME"} -> "name"
      [] key \in {"Label", "label", "LABEL"} -> "label"
      [] OTHER -> "content"

\* The dict has a key that is word in any case with a non-empty str value.
HasText(d, word) ==
    \E i \in 1..Len(d.v) :
        /\ Lower(d.v[i].key) = word
        /\ d.v[i].value.kind = "str"
        /\ d.v[i].value.v # ""

\* The number of dicts in the document that have both a name and a label.
RECURSIVE MatchingNodes(_)
RECURSIVE MatchingIn(_)
MatchingIn(xs) ==
    IF xs = <<>> THEN 0 ELSE MatchingNodes(Head(xs)) + MatchingIn(Tail(xs))

MatchingNodes(d) ==
    IF d.kind = "dict"
    THEN (IF HasText(d, "name") /\ HasText(d, "label") THEN 1 ELSE 0)
         + MatchingIn([i \in 1..Len(d.v) |-> d.v[i].value])
    ELSE IF d.kind = "list" THEN MatchingIn(d.v)
    ELSE 0

\* The number of dicts in the document.
RECURSIVE DictNodes(_)
RECURSIVE DictNodesIn(_)
DictNodesIn(xs) ==
    IF xs = <<>> THEN 0 ELSE DictNodes(Head(xs)) + DictNodesIn(Tail(xs))

DictNodes(d) ==
    IF d.kind = "dict" THEN 1 + DictNodesIn([i \in 1..Len(d.v) |-> d.v[i].value])
    ELSE IF d.kind = "list" THEN DictNodesIn(d.v)
    ELSE 0

\* Both invocations of the pair are over.
BothFinished == Finished(pc) /\ suspended # NoInvocation /\ Finished(suspended.pc)

AllStampFields ==
    Range(timestamp_fields) \cup Range(agent_ts_fields) \cup {"EnqueueTimestamp"}

\* The named timestamp fields a contact carries.
PresentStamps(c) ==
    (c.Stamps \cup c.AgentInfo.Stamps
        \cup (IF c.QueueInfo.EnqueueTimestamp THEN {"EnqueueTimestamp"} ELSE {}))
    \cap AllStampFields

\* The keys of the record of a contact, the looked-up names aside.
ExpectedKeys(c) ==
    {"DescribedContactId"}
    \cup (IF c.Channel # NoneV THEN {"OriginalContactChannel"} ELSE {})
    \cup PresentStamps(c)
    \cup (IF c.AgentInfo.Id # NoneV THEN {"AgentId"} ELSE {})
    \cup (IF c.Campaign.CampaignId # NoneV THEN {"CampaignId"} ELSE {})

\* d[key] where d is a dict that has the key, None elsewhere.
At(d, key) == IF d.kind = "dict" /\ HasKey(d, key) THEN GetKey(d, key) ELSE PyNone

\* Details.ContactData.References.taskRef.Value of the event, None when a
\* place on the way is missing.
TaskRefValue(ev) ==
    At(At(At(At(At(ev, "Details"), "ContactData"), "References"), "taskRef"), "Value")

\* The event can be read down to ContactData: Details and ContactData are
\* maps where they are present.
Readable(ev) ==
    /\ ev.kind = "dict"
    /\ HasKey(ev, "Details") => GetKey(ev, "Details").kind = "dict"
    /\ At(ev, "Details").kind = "dict" /\ HasKey(At(ev, "Details"), "ContactData")
          => At(At(ev, "Details"), "ContactData").kind = "dict"

\* Details.ContactData.Channel of the event, None when it is missing.
ChannelOf(ev) == At(At(At(ev, "Details"), "ContactData"), "Channel")

\* The pieces of the path of the taskRef URL that are no slashes.
NamedPieces(ev) ==
    IF TaskRefValue(ev).kind = "text"
    THEN SelectSeq(urlparse(TaskRefValue(ev).v).path, LAMBDA piece : piece # "/")
    ELSE <<>>

\* The input errors: a channel that is neither TASK nor CHAT, or TASK
\* without a configured domain id or without a case id in the taskRef URL.
InputError ==
    /\ Readable(flow_event)
    /\ \/ ChannelOf(flow_event) \notin {PyStr("TASK"), PyStr("CHAT")}
       \/ /\ ChannelOf(flow_event) = PyStr("TASK")
          /\ cases_domain_id \in {PyNone, PyStr("")} \/ NamedPieces(flow_event) = <<>>

FlowCallsOf(op) == SelectSeq(flow_calls, LAMBDA c : c.op = op)

\* lambda_handler of process_contact_flow_event.py is over.
FlowOver == flow_pc \in {"returned", "raised"}

\* process_task_event or process_chat_event has returned data.
Processed == "fields" \in DOMAIN flow_data

ViewCallsOf(op) == SelectSeq(views_calls, LAMBDA c : c.op = op)

\* The view ids of the ARNs that can be parsed, in the order of the list.
ParsableIds ==
    LET parsable == SelectSeq(view_arns, LAMBDA a : Parsable(views_event.InstanceId, a))
    IN  [i \in 1..Len(parsable) |-> parse_view_arn(parsable[i]).view_id]

SetupCallsOf(op) == SelectSeq(setup_calls, LAMBDA c : c.op = op)

\* ------------------------------------------------------------------------
\* Properties
\* ------------------------------------------------------------------------

\* C1: whatever the contacts answer (cycles, chains without a VOICE contact),
\* the walk makes at most MaxHops describe_contact calls and is over once it
\* has made that many.
C1_WalkBounded ==
    /\ Len(Fetches) <= MaxHops
    /\ Len(Fetches) = MaxHops => pc # "walk"

\* C1 witness: a cycle of non-VOICE contacts uses up all the hops.
C1_CycleExhaustsBound ==
    /\ pc = "returned"
    /\ Len(Fetches) = MaxHops
    /\ \A i \in 1..Len(Fetches) : Fetches[i].ok
    /\ contact.Channel # "VOICE"
    /\ contact.RelatedContactId \notin {NoneV, LastFetch.arg}
    /\ Fetches[1].arg = Fetches[3].arg

\* C2: a fetched VOICE contact ends the walk - no describe_contact follows
\* it - and the returned record names it (DescribedContactId, channel VOICE)
\* and holds exactly the timestamp fields that contact carries.
C2_VoiceStopsWalk ==
    /\ pc = "walk" => contact.Channel # "VOICE"
    /\ (ResolverReturned /\ LastFetch.ok /\ contact.Channel = "VOICE") =>
          /\ Has(result, "DescribedContactId", PyStr(LastFetch.arg))
          /\ Has(result, "OriginalContactChannel", PyStr("VOICE"))
          /\ DOMAIN result \cap AllStampFields = PresentStamps(contact)
          /\ \A f \in PresentStamps(contact) :
                Has(result, f, PyStr("2024-05-01T10:00:00+00:00"))

\* C2 witness: a chain of three contacts that ends in a VOICE contact with
\* timestamps (and a back-reference of its own, which is not followed).
C2_VoiceAtThirdHop ==
    /\ pc = "returned"
    /\ Len(Fetches) = 3
    /\ LastFetch.ok
    /\ contact.Channel = "VOICE"
    /\ contact.RelatedContactId \notin {NoneV, LastFetch.arg}
    /\ "InitiationTimestamp" \in DOMAIN result
    /\ "LastUpdateTimestamp" \notin DOMAIN result

\* C3: a non-VOICE contact without a back-reference, or whose back-reference
\* is its own id, ends the walk: no describe_contact follows it and it is the
\* contact the record names; the walk has then made one call more than the
\* hop it stopped at (a self-referencing start: hop 0, one call).
C3_DeadEndStopsWalk ==
    /\ (pc = "walk" /\ hop > 0) =>
          contact.RelatedContactId \notin {NoneV, LastFetch.arg}
    /\ (ResolverReturned /\ LastFetch.ok /\ contact.Channel # "VOICE"
            /\ contact.RelatedContactId \in {NoneV, LastFetch.arg}) =>
          /\ Has(result, "DescribedContactId", PyStr(LastFetch.arg))
          /\ Len(Fetches) = hop + 1

\* C3 witness: the start contact refers to itself.
C3_SelfReferenceAtStart ==
    /\ pc = "returned"
    /\ Len(Fetches) = 1
    /\ LastFetch.ok
    /\ hop = 0
    /\ contact.Channel = "TASK"
    /\ contact.RelatedContactId = event.RelatedContactId
    /\ Has(result, "DescribedContactId", PyStr(event.RelatedContactId))

\* C4: no failure of describe_contact, describe_user or describe_campaign
\* leaves _get_contact_details as an exception: after a failed call the
\* invocation is still inside the function or back in lambda_handler.
C4_NoExceptionEscapes ==
    /\ Fetches # <<>> => pc # "raised"
    /\ \A i \in 1..Len(calls) :
          (calls[i].op \in DescribeOps /\ ~calls[i].ok) =>
              pc \in {"campaign", "labels", "write", "returned"}

\* C4 witness: describe_user and describe_campaign both failed and the
\* handler returned.
C4_BothLookupsFailed ==
    /\ pc = "returned"
    /\ SomeFailed("describe_user")
    /\ SomeFailed("describe_campaign")
    /\ result # EmptyDict

\* C5: a failed describe_contact is the last describe_* call of the
\* invocation, and the function returns result as it stood before the call,
\* which is the empty record: the loop stores nothing in result.
C5_FetchFailureAborts ==
    \A i \in 1..Len(calls) :
        (calls[i].op = "describe_contact" /\ ~calls[i].ok) =>
            /\ \A j \in (i + 1)..Len(calls) : calls[j].op \notin DescribeOps
            /\ result = EmptyDict
            /\ pc \in {"labels", "write", "returned"}

\* C5 witness: the third describe_contact fails after two that succeeded,
\* the second for a contact with an agent and a campaign.
C5_FailureAtThirdHop ==
    /\ pc = "returned"
    /\ Len(Fetches) = 3
    /\ Fetches[1].ok /\ Fetches[2].ok /\ ~Fetches[3].ok
    /\ contact.AgentInfo.Id # NoneV
    /\ contact.Campaign.CampaignId # NoneV
    /\ result = EmptyDict

\* C6: when describe_user failed the record lacks AgentName and
\* AgentUsername and nothing else: it holds the AgentId, the described
\* contact, its channel, its timestamps and the CampaignId, and
\* describe_campaign was still called.  When describe_campaign failed the
\* record lacks CampaignName and nothing else.
C6_LookupFailureOmitsOnlyNames ==
    ResolverReturned =>
        /\ SomeFailed("describe_user") =>
              /\ DOMAIN result \ {"CampaignName"} = ExpectedKeys(contact)
              /\ Has(result, "AgentId", PyStr(contact.AgentInfo.Id))
              /\ Has(result, "DescribedContactId", PyStr(current_id))
              /\ contact.Campaign.CampaignId # NoneV =>
                    Len(CallsOf("describe_campaign")) = 1
        /\ SomeFailed("describe_campaign") =>
              /\ DOMAIN result \ {"AgentName", "AgentUsername"} = ExpectedKeys(contact)
              /\ Has(result, "CampaignId", PyStr(contact.Campaign.CampaignId))
              /\ Has(result, "DescribedContactId", PyStr(current_id))

\* C6 witness: describe_user failed, describe_campaign then gave a name.
C6_UserLookupFailed ==
    /\ pc = "returned"
    /\ SomeFailed("describe_user")
    /\ "CampaignName" \in DOMAIN result
    /\ "OriginalContactChannel" \in DOMAIN result
    /\ PresentStamps(contact) # {}

\* C7: describe_user and describe_campaign are each called at most once and
\* only after the last describe_contact; when the walk ended on a contact,
\* describe_user is called once if that contact has an agent Id (with that
\* Id) and not otherwise, and describe_campaign likewise for its CampaignId;
\* after a failed walk neither is called.
C7_LookupsOncePerTerminal ==
    /\ Len(CallsOf("describe_user")) <= 1
    /\ Len(CallsOf("describe_campaign")) <= 1
    /\ \A i, j \in 1..Len(calls) :
          (i < j /\ calls[i].op \in {"describe_user", "describe_campaign"}) =>
              calls[j].op # "describe_contact"
    /\ (ResolverReturned /\ LastFetch.ok) =>
          /\ IF contact.AgentInfo.Id # NoneV
             THEN /\ Len(CallsOf("describe_user")) = 1
                  /\ CallsOf("describe_user")[1].arg = contact.AgentInfo.Id
             ELSE CallsOf("describe_user") = <<>>
          /\ IF contact.Campaign.CampaignId # NoneV
             THEN /\ Len(CallsOf("describe_campaign")) = 1
                  /\ CallsOf("describe_campaign")[1].arg = contact.Campaign.CampaignId
             ELSE CallsOf("describe_campaign") = <<>>
    /\ (ResolverReturned /\ ~LastFetch.ok) =>
          CallsOf("describe_user") = <<>> /\ CallsOf("describe_campaign") = <<>>

\* C7 witness: a walk of two hops whose last contact has an agent and a
\* campaign; both lookups were made.
C7_BothLookupsMade ==
    /\ pc = "returned"
    /\ Len(Fetches) = 2
    /\ Len(CallsOf("describe_user")) = 1
    /\ Len(CallsOf("describe_campaign")) = 1

\* C8: an event without an InitialContactId (absent or empty) makes no
\* storage call - no query, no put_item, the table is untouched - makes no
\* other upstream call either, and the handler returns.
C8_NoKeyNoStorageCall ==
    event.InitialContactId \in {NoneV, ""} =>
        /\ pc \in {"start", "returned"}
        /\ calls = <<>>
        /\ table = EmptyDict

\* C8 witness: the handler returned for an event with an empty
\* InitialContactId while both tables were configured.
C8_ReturnedWithoutKey ==
    /\ pc = "returned"
    /\ event.InitialContactId = ""
    /\ dynamodb /\ vq_table
    /\ normalized_attributes # EmptyDict

\* C9 as stated: in the item handed to put_item, a key that both the
\* normalized fields and the lineage record hold has the normalized value.
C9_NormalizedWinsOnCollision ==
    pc = "write" =>
        \A k \in DOMAIN normalized_attributes \cap DOMAIN result :
            item[k] = normalized_attributes[k]

\* C9 as amended: in the item handed to put_item, a key that both the
\* normalized fields and the lineage record hold has the lineage value.
C9_LineageWinsOnCollision ==
    pc \in {"labels", "write", "returned"} =>
        \A k \in DOMAIN normalized_attributes \cap DOMAIN result :
            Has(item, k, result[k])

\* C9 witness: the answers have a key AgentId, the lineage record has one
\* with another value, and the item is about to be written.
C9_CollisionOnAgentId ==
    /\ pc = "write"
    /\ dynamodb
    /\ "AgentId" \in DOMAIN normalized_attributes \cap DOMAIN result
    /\ normalized_attributes["AgentId"] # result["AgentId"]

\* C10 as stated: for an event with an InitialContactId and a configured
\* table the handler does not raise, and when it has returned it has called
\* put_item exactly once.
C10_IdentityAlwaysWritten ==
    (event.InitialContactId \notin {NoneV, ""} /\ dynamodb) =>
        /\ pc # "raised"
        /\ Len(CallsOf("put_item")) <= 1
        /\ pc = "returned" => Len(CallsOf("put_item")) = 1

\* C11: two invocations for the same key that computed the same item (same
\* event, same clock, same upstream responses) leave the table as one of
\* them does: whether one or both of their put_item calls succeeded, the
\* table holds exactly one item, under that key, equal to the item computed.
C11_SecondUpsertChangesNothing ==
    (BothFinished /\ item = suspended.item /\ OkPuts # <<>>) =>
        /\ DOMAIN table = {PyStr(event.InitialContactId)}
        /\ Has(table, PyStr(event.InitialContactId), item)

\* C11 witness: both invocations looked up the same label, computed the same
\* item and wrote it.
C11_SameItemWrittenTwice ==
    /\ BothFinished
    /\ event = suspended.event
    /\ item = suspended.item
    /\ Len(OkPuts) = 2
    /\ "q1_Question" \in DOMAIN item

\* C12: in every interleaving of two invocations for the same key, the table
\* holds nothing before the first successful put_item and afterwards exactly
\* the item of the last successful put_item, whole: no attribute of an
\* earlier item stays, and once both are over that item is the complete item
\* of one of the two invocations.
C12_LastUpsertWinsInFull ==
    IF OkPuts = <<>> THEN table = EmptyDict
    ELSE LET last == OkPuts[Len(OkPuts)].arg
         IN  /\ DOMAIN table = {last[DDB_PK]}
             /\ Has(table, last[DDB_PK], last)
             /\ BothFinished => last \in {item, suspended.item}

\* C12 witness: both invocations wrote, the earlier item had attributes
\* (a looked-up question, the customer address) the later one lacks, and
\* the later invocation had started before the earlier one wrote.
C12_EarlierAttributesGone ==
    /\ BothFinished
    /\ Len(OkPuts) = 2
    /\ {"q1_Question", "CustomerEndpointAddress"} \subseteq
            DOMAIN OkPuts[1].arg \ DOMAIN OkPuts[2].arg
    /\ "q2_Question" \in DOMAIN OkPuts[2].arg
    /\ calls[1].op = "query" /\ calls[1].arg = "q2"

\* C13: an invocation calls put_item at most once, and when that call failed
\* the handler has returned (it did not raise, it did not call again), the
\* table is as it was, and the value returned is the normalized attributes
\* computed from the event, as on success.
C13_WriteFailureCaught ==
    /\ Len(CallsOf("put_item")) <= 1
    /\ SomeFailed("put_item") =>
          /\ pc = "returned"
          /\ table = EmptyDict
          /\ normalized_attributes =
                NormalizedAttributes(event.viewResultData, event.viewAction)

\* C13 witness: put_item failed after a lineage walk and the handler
\* returned its normalized attributes.
C13_PutFailedHandlerReturned ==
    /\ pc = "returned"
    /\ SomeFailed("put_item")
    /\ Fetches # <<>>
    /\ "q1" \in DOMAIN normalized_attributes

C17_RawValueKeptOnError ==
    pc # "start" =>
        /\ \A i \in 1..Len(event.viewResultData) :
              LET answer == event.viewResultData[i]
                  r == normalize_view_value(answer.value)
              IN  Has(normalized_attributes, answer.key,
                      IF r.kind = "raise" THEN answer.value ELSE r)
        /\ ~OptionalFieldsRaise(event) => pc # "raised"

\* C17 witness: normalizing q1 (a map with the key U+00B2) raised; the item
\* written has the map under q1 and the joined list under q2.
C17_MapKeptListJoined ==
    /\ pc = "returned"
    /\ OkPuts # <<>>
    /\ Len(event.viewResultData) = 3
    /\ normalize_view_value(event.viewResultData[1].value).kind = "raise"
    /\ Has(table[PyStr("c1")], "q1", event.viewResultData[1].value)
    /\ Has(table[PyStr("c1")], "q2", PyStr("x, 7"))
    /\ DOMAIN normalized_attributes = {"q1", "q2", "q2_Question", "viewAction"}

\* C15: for a map all of whose keys are decimal strings, normalize_view_value
\* returns the str that joins the values with ", " in ascending order of the
\* integers the keys stand for.
C15_JoinedInIntegerOrder ==
    (returned # NotCalled /\ DecimalKeyed(raw_value)) =>
        /\ returned.kind = "str"
        /\ returned.v = Join(ValuesCountingFrom(raw_value.v, 0))

\* C15 witness: {"2": "B", "10": "C", "1": "A"} gave "A, B, C".
C15_TenAfterTwo ==
    /\ raw_value.kind = "dict"
    /\ DOMAIN raw_value.v = {"2", "10", "1"}
    /\ raw_value.v["2"] = PyStr("B")
    /\ raw_value.v["10"] = PyStr("C")
    /\ raw_value.v["1"] = PyStr("A")
    /\ returned = PyStr("A, B, C")

\* C16 as stated: normalize_view_value returns a value for every argument: for
\* a list the str of its elements joined in index order, for an empty map or
\* list the empty str, and for anything else - a scalar, a map with a key
\* that is no decimal string - the argument itself.
C16_OthersReturnedUnchanged ==
    returned # NotCalled =>
        /\ returned.kind # "raise"
        /\ raw_value.kind = "list" =>
              /\ returned.kind = "str"
              /\ returned.v = Join([i \in 1..Len(raw_value.v) |-> Str(raw_value.v[i])])
        /\ (raw_value.kind \in {"list", "dict"} /\ DOMAIN raw_value.v = {}) =>
              returned.kind = "str" /\ returned.v = ""
        /\ (raw_value.kind # "list" /\ ~DecimalKeyed(raw_value)) =>
              returned.kind = raw_value.kind /\ returned = raw_value

\* C18: the field gets the value under stringValue when the value has that
\* key; else the one under doubleValue (a float still); else the one under
\* booleanValue; else the one under userArnValue; else, with emptyValue, None.
C18_FirstVariantInOrderWins ==
    \A i \in 1..Len(DecodedFields) :
        LET field == DecodedFields[i]
            value_obj == field.value
            keys == DOMAIN value_obj
        IN  /\ "stringValue" \in keys =>
                  Has(fields, field.id, value_obj["stringValue"])
            /\ ("doubleValue" \in keys /\ "stringValue" \notin keys) =>
                  /\ Has(fields, field.id, value_obj["doubleValue"])
                  /\ fields[field.id].kind = "float"
            /\ ("booleanValue" \in keys
                    /\ keys \cap {"stringValue", "doubleValue"} = {}) =>
                  Has(fields, field.id, value_obj["booleanValue"])
            /\ ("userArnValue" \in keys
                    /\ keys \cap {"stringValue", "doubleValue", "booleanValue"} = {}) =>
                  Has(fields, field.id, value_obj["userArnValue"])
            /\ ("emptyValue" \in keys
                    /\ keys \cap {"stringValue", "doubleValue", "booleanValue",
                                   "userArnValue"} = {}) =>
                  Has(fields, field.id, PyNone)

\* C18 witness: a value with userArnValue and emptyValue gave the ARN, and
\* one with doubleValue and booleanValue the number.
C18_ArnBeforeEmpty ==
    /\ Len(DecodedFields) = 2
    /\ DOMAIN raw_fields[1].value = {"userArnValue", "emptyValue"}
    /\ DOMAIN raw_fields[2].value = {"doubleValue", "booleanValue"}
    /\ fields["status"] = VariantValue("userArnValue")
    /\ fields["title"] = PyFloat(100123)

\* C19 as stated: a value with no known variant key, or with more than one,
\* is stored as the text of the whole value and a warning names the field.
C19_FallbackUnlessOneVariant ==
    \A i \in 1..Len(DecodedFields) :
        LET field == DecodedFields[i]
        IN  Cardinality(KnownKeys(field.value)) # 1 =>
                /\ Has(fields, field.id, PyStr(Repr(field.value)))
                /\ field.id \in Range(warnings)

\* C19 as amended: a value with no known variant key is stored as the text
\* of the whole value and a warning names the field; a value with one known
\* key or more is not, and no warning names it; and the loop stores a value
\* for every field it has been through.
C19_FallbackOnlyWithoutVariant ==
    /\ DOMAIN fields = {DecodedFields[i].id : i \in 1..Len(DecodedFields)}
    /\ \A i \in 1..Len(DecodedFields) :
          LET field == DecodedFields[i]
          IN  IF KnownKeys(field.value) = {}
              THEN /\ Has(fields, field.id, PyStr(Repr(field.value)))
                   /\ field.id \in Range(warnings)
              ELSE /\ fields[field.id] \in
                          {VariantValue(k) : k \in KnownKeys(field.value) \ {"emptyValue"}}
                              \cup {PyNone}
                   /\ field.id \notin Range(warnings)

\* C19 witness: a value with an unknown key only was stored as its text with
\* a warning, and a value with two known keys was decoded without one.
C19_UnknownKeyRendered ==
    /\ Len(DecodedFields) = 2
    /\ DOMAIN raw_fields[1].value = {FutureKey}
    /\ DOMAIN raw_fields[2].value = {"stringValue", "doubleValue"}
    /\ fields["status"] = PyStr("{'futureValue': 'z'}")
    /\ fields["title"] = PyStr("Open")
    /\ warnings = <<"status">>

\* C20 as stated: the call returns as many pairs as the document has dicts
\* with a name key and a label key, in any case, that both hold a non-empty
\* str.
C20_OnePairPerMatchingNode ==
    pairs # NotCalled => Len(pairs.v) = MatchingNodes(data)

\* C21 as stated: every pair returned has a Name that is a non-empty str and
\* a Label that is a non-empty str, and there are no more pairs than the
\* document has dicts.
C21_PairsAreNonEmptyStrings ==
    pairs # NotCalled =>
        /\ \A i \in 1..Len(pairs.v) :
              /\ pairs.v[i].Name.kind = "str" /\ pairs.v[i].Name.v # ""
              /\ pairs.v[i].Label.kind = "str" /\ pairs.v[i].Label.v # ""
        /\ Len(pairs.v) <= DictNodes(data)

\* C28 as stated: once the resolver has returned a non-empty record, its
\* DescribedContactId is the id of the last describe_contact call, the one
\* the channel, timestamps, agent and campaign were read from - also when
\* the walk used up all its hops.
C28_DescribedIsLastFetched ==
    (ResolverReturned /\ DOMAIN result # {}) =>
        Has(result, "DescribedContactId", PyStr(LastFetch.arg))

\* C29 as stated: every record handed to the upsert has the contact's
\* InitialContactId in its key attribute, whatever the normalized fields, the
\* optional attributes, the lineage attributes and the companion labels are
\* named.
C29_KeyIsInitialContactId ==
    \A i \in 1..Len(CallsOf("put_item")) :
        Has(CallsOf("put_item")[i].arg, DDB_PK, PyStr(event.InitialContactId))

\* C26: _extract_case_id_from_task_ref gives the last non-empty segment of
\* the path of the taskRef URL, slashes at the end ignored; it gives None when
\* the event, References, taskRef or Value is missing or empty or the path has
\* no segment; and it raises for no event.
C26_LastSegmentOrNone ==
    case_id # NotCalled =>
        LET value == TaskRefValue(task_event)
            path == IF value.kind = "text" THEN urlparse(value.v).path ELSE <<>>
            named == SelectSeq(path, LAMBDA piece : piece # "/")
        IN  /\ case_id.kind \in {"str", "none"}
            /\ IF named # <<>> THEN case_id = PyStr(named[Len(named)])
               ELSE case_id = PyNone

\* C26 witness: the id is taken from a full URL that ends in a slash.
C26_TrailingSlashIgnored ==
    /\ case_id = PyStr("de4d7f2d")
    /\ TaskRefValue(task_event).kind = "text"
    /\ Head(TaskRefValue(task_event).v) = "https:"
    /\ TaskRefValue(task_event).v[Len(TaskRefValue(task_event).v)] = "/"

C23_GetCaseFailurePropagates ==
    \A i \in 1..Len(flow_calls) :
        (flow_calls[i].op = "get_case" /\ ~flow_calls[i].ok) =>
            /\ flow_pc = "raised"
            /\ flow_result = [kind |-> "raise", v |-> flow_calls[i].raised]
            /\ FlowCallsOf("publish") = <<>>

\* C23 witness: get_case raised a ClientError while a topic was configured.
C23_ClientErrorFromGetCase ==
    /\ flow_pc = "raised"
    /\ sns_topic_arn # PyNone
    /\ Len(flow_calls) = 1
    /\ flow_calls[1].op = "get_case"
    /\ flow_calls[1].raised = "ClientError"

\* C24: publish is called at most once and only once data is there (for a
\* TASK event after a get_case that succeeded); and when no topic is
\* configured or publish raised, lambda_handler still returns the status
\* "success", every field of data under its prefixed key, and
\* sns_message_id "not_sent".
C24_NotificationNeverFailsPipeline ==
    /\ Len(FlowCallsOf("publish")) <= 1
    /\ FlowCallsOf("publish") # <<>> =>
          /\ Processed
          /\ flow_data.channel = PyStr("TASK") =>
                flow_calls[1].op = "get_case" /\ flow_calls[1].ok
    /\ ( /\ Processed
         /\ flow_pc # "publish"
         /\ sns_topic_arn = PyNone \/ \E i \in 1..Len(flow_calls) :
                                          flow_calls[i].op = "publish" /\ ~flow_calls[i].ok )
       => /\ flow_pc = "returned"
          /\ Has(flow_result, "status", PyStr("success"))
          /\ Has(flow_result, "sns_message_id", PyStr("not_sent"))
          /\ \A i \in 1..Len(flow_data.fields.v) :
                LET field == flow_data.fields.v[i]
                    prefix == IF flow_data.channel = PyStr("TASK") THEN "case_" ELSE "chat_"
                IN  Has(flow_result, prefix \o field.key,
                        PyStr(IF field.value = PyNone THEN "" ELSE StrOf(field.value)))

\* C24 witness: publish raised for a TASK event with three fields, and the
\* result has the title of the case.
C24_PublishRaisedAfterGetCase ==
    /\ flow_pc = "returned"
    /\ Len(flow_calls) = 2
    /\ flow_calls[2].op = "publish" /\ flow_calls[2].raised = "Exception"
    /\ Len(flow_data.fields.v) = 3
    /\ Has(flow_result, "case_title", PyStr("Open"))
    /\ Has(flow_result, "sns_message_id", PyStr("not_sent"))

\* C25 as stated: whatever the field ids and attribute names are, the
\* result returned after flattening has status, channel, contact_id,
\* sns_message_id, case_id and task_name as they were before flattening.
C25_TopLevelKeysKept ==
    (flow_pc = "returned" /\ Processed) =>
        \A k \in DOMAIN BaseResult(flow_data, message_id) :
            flow_result[k] = BaseResult(flow_data, message_id)[k]

\* C30: every ARN of the list is counted once, as processed or as an error,
\* whatever fails (an ARN that cannot be parsed, describe_view raising, a
\* template that cannot be read): the two counts add up to the number of ARNs
\* gone through, at the end to the length of the list; and every ARN that can
\* be parsed is described, whatever happened to the ARNs before it.
C30_EveryArnCountedOnce ==
    views_pc \in {"loop", "returned"} =>
        /\ processed + errors = arn_pos - 1
        /\ views_pc = "returned" =>
              /\ processed + errors = Len(view_arns)
              /\ Len(ViewCallsOf("describe_view")) = Len(ParsableIds)
              /\ \A i \in 1..Len(ParsableIds) :
                    ViewCallsOf("describe_view")[i].arg = ParsableIds[i]

\* C30 witness: of three ARNs the first could not be parsed, describe_view
\* raised for the second, and the third was processed and its pairs written.
C30_ThirdProcessedAfterTwoErrors ==
    /\ views_pc = "returned"
    /\ Len(view_arns) = 3
    /\ view_arns[1] = PyNone
    /\ processed = 1 /\ errors = 2
    /\ Len(ViewCallsOf("describe_view")) = 2
    /\ ~ViewCallsOf("describe_view")[1].ok
    /\ ViewCallsOf("describe_view")[2].ok
    /\ ViewCallsOf("describe_view")[2].arg = "v2"
    /\ Len(ViewCallsOf("put_item")) = 2

\* C27 as stated: create_event_integration makes no create call when an
\* integration of the name exists, associate_integration_with_instance makes
\* no create call when the integration is associated with the instance
\* already and gives the id of that association, and over the runs of the
\* script each of the two is created at most once.
C27_SetupIsIdempotent ==
    /\ \A i \in 1..Len(setup_calls) :
          setup_calls[i].op \in {"create_event_integration", "create_integration_association"}
              => ~setup_calls[i].existed
    /\ Len(SelectSeq(SetupCallsOf("create_event_integration"), LAMBDA c : c.ok)) <= 1
    /\ Len(SelectSeq(SetupCallsOf("create_integration_association"), LAMBDA c : c.ok)) <= 1
    /\ setup_pc = "done" => Associated(event_integration_arn) /\
                            assoc_id = FirstMatch(associations, event_integration_arn)

====
